---- MODULE Spec2Model ----
(***************************************************************************)
(* Model of the Conga Sign developer sandbox back end: the ConfigManager   *)
(* (region variant), the CongaApiClient that authenticates and sends       *)
(* vendor requests, and the TransactionManager that mirrors vendor         *)
(* packages into a local, file-backed list.                                *)
(*                                                                         *)
(* JavaScript values are encoded as strings: "UNDEF" is an absent          *)
(* property, "NULL" is null, "NUM:7" is a truthy non-string, "NUM:0" is a  *)
(* falsy non-string; every other string is itself.  An ISO-8601 timestamp  *)
(* is the tuple <<day, hour, minute, second, millisecond>>, null is <<>>.  *)
(***************************************************************************)
EXTENDS Integers, Sequences, FiniteSets, TLC

VARIABLES
  now,           \* Date.now(), in milliseconds
  diskOk,        \* whether fs.writeFileSync succeeds
  configFile,    \* data/config.json
  cfg,           \* this.config of every ConfigManager instance
  transactions,  \* this.transactions of the TransactionManager
  txFile,        \* data/transactions.json
  remote,        \* ids of the packages the vendor holds
  procs,         \* the requests in flight, each at its pending await
  ops,           \* number of operations started so far
  last           \* what the last step did (an observation, not program state)

txVars == <<transactions, txFile, remote, procs, ops>>

vars == <<now, diskOk, configFile, cfg, transactions, txFile, remote, procs, ops, last>>

(* ------------------------------ bounds --------------------------------- *)

\* first clock value of a run, in milliseconds
StartNow == 1000000

\* clock values are StartNow + k * TickMs for k in 0 .. MaxTicks
MaxTicks == 1

\* a partial update carries at most this many properties
MaxPartialKeys == 3

\* operations started in one run
MaxOps == 2

(* --------------------------- JS value encoding -------------------------- *)

Absent == "UNDEF"

Null == "NULL"

NonString == "NUM:7"

FalsyNonString == "NUM:0"

NullExpiry == <<>>

AbsentExpiry == <<-1>>

Truthy(v) == v \notin {"", Absent, Null, FalsyNonString}

IsString(v) == v \notin {Absent, Null, NonString, FalsyNonString}

\* the clock advances in steps of five minutes
TickMs == 300000

\* Date.prototype.toISOString: split epoch milliseconds into calendar fields
toISOString(ms) ==
  << ms \div 86400000, (ms \div 3600000) % 24, (ms \div 60000) % 60,
     (ms \div 1000) % 60, ms % 1000 >>

\* new Date(isoString).getTime(): recombine the calendar fields
DateParse(iso) ==
  iso[1] * 86400000 + iso[2] * 3600000 + iso[3] * 60000 + iso[4] * 1000 + iso[5]

(* ----------------------------- ConfigManager ---------------------------- *)

\* the ConfigManager instances of the process: the ones the configuration
\* routes and the auth routes hold, and the ones the CongaApiClient of the
\* auth routes and of the TransactionManager construct for themselves
CMs == {"route", "auth", "authClient", "client"}

DEFAULT_CONFIG ==
  [ region |-> "us", clientId |-> "", clientSecret |-> "", platformEmail |-> "",
    callbackUrl |-> "", accessToken |-> Null, tokenExpiry |-> NullExpiry,
    initialized |-> FALSE ]

\* variant that adopts the record before the write is known to have succeeded
saveConfigAdoptFirst(c, config, ok) ==
  IF ok THEN [ret |-> TRUE, config |-> config, file |-> config, wrote |-> TRUE]
        ELSE [ret |-> FALSE, config |-> config, file |-> c, wrote |-> FALSE]

\* saveConfig: write the file, then adopt the record; a failed write is
\* caught and leaves both as they were
saveConfig(c, config, ok) ==
  IF ok THEN [ret |-> TRUE, config |-> config, file |-> config, wrote |-> TRUE]
        ELSE [ret |-> FALSE, config |-> c, file |-> c, wrote |-> FALSE]

isInitialized(c) == c.initialized = TRUE

\* { ...this.config, ...newConfig }
SpreadConfig(c, n) ==
  [ region        |-> IF n.region = Absent THEN c.region ELSE n.region,
    clientId      |-> IF n.clientId = Absent THEN c.clientId ELSE n.clientId,
    clientSecret  |-> IF n.clientSecret = Absent THEN c.clientSecret ELSE n.clientSecret,
    platformEmail |-> IF n.platformEmail = Absent THEN c.platformEmail ELSE n.platformEmail,
    callbackUrl   |-> IF n.callbackUrl = Absent THEN c.callbackUrl ELSE n.callbackUrl,
    accessToken   |-> IF n.accessToken = Absent THEN c.accessToken ELSE n.accessToken,
    tokenExpiry   |-> IF n.tokenExpiry = AbsentExpiry THEN c.tokenExpiry ELSE n.tokenExpiry,
    initialized   |-> IF n.initialized = Absent THEN c.initialized
                      ELSE (n.initialized = "true") ]

\* the three typeof checks at the head of updateConfig
ValidPartial(n) ==
  /\ ~(Truthy(n.clientId) /\ ~IsString(n.clientId))
  /\ ~(Truthy(n.clientSecret) /\ ~IsString(n.clientSecret))
  /\ ~(Truthy(n.platformEmail) /\ ~IsString(n.platformEmail))

\* "If client ID or secret changed, clear the token"
CredentialsChanged(c, n) ==
  \/ (Truthy(n.clientId) /\ n.clientId # c.clientId)
  \/ (Truthy(n.clientSecret) /\ n.clientSecret # c.clientSecret)

\* variant that never recomputes the flag
KeepInitialized(u) == u.initialized

ComputeInitialized(u) ==
  Truthy(u.clientId) /\ Truthy(u.clientSecret) /\ Truthy(u.platformEmail)

updateConfig(c, n, ok) ==
  IF ~ValidPartial(n)
  THEN [ret |-> FALSE, config |-> c, file |-> c, wrote |-> FALSE]
  ELSE LET merged  == SpreadConfig(c, n)
           cleared == IF CredentialsChanged(c, n)
                      THEN [merged EXCEPT !.accessToken = Null,
                                          !.tokenExpiry = NullExpiry]
                      ELSE merged
           updated == [cleared EXCEPT !.initialized = ComputeInitialized(cleared)]
       IN saveConfig(c, updated, ok)

\* variant without the five-minute buffer
ExpiryNoBuffer(t, expiresIn) == t + (expiresIn * 1000)

ExpiryTime(t, expiresIn) == t + (expiresIn * 1000) - (5 * 60 * 1000)

updateToken(c, token, expiresIn, t, ok) ==
  saveConfig(c, [c EXCEPT !.accessToken = token,
                          !.tokenExpiry = toISOString(ExpiryTime(t, expiresIn))], ok)

\* the environment variant of the same method: a token without an expiry
\* counts as valid
isTokenValidNoExpiryOk(c, t) ==
  IF ~Truthy(c.accessToken) THEN FALSE
  ELSE IF c.tokenExpiry # NullExpiry THEN DateParse(c.tokenExpiry) > t
  ELSE TRUE

isTokenValid(c, t) ==
  IF ~Truthy(c.accessToken) THEN FALSE
  ELSE IF c.tokenExpiry # NullExpiry THEN DateParse(c.tokenExpiry) > t
  ELSE FALSE

\* variant that never keeps the region
resetAll(c, keepRegion, ok) == saveConfig(c, DEFAULT_CONFIG, ok)

reset(c, keepRegion, ok) ==
  LET resetConfig == IF keepRegion /\ Truthy(c.region)
                     THEN [DEFAULT_CONFIG EXCEPT !.region = c.region]
                     ELSE DEFAULT_CONFIG
  IN saveConfig(c, resetConfig, ok)

\* variant that returns the whole record whatever the caller asked for
getConfigWhole(c, includeSecret) == c

getConfig(c, includeSecret) ==
  IF includeSecret THEN c
  ELSE [k \in (DOMAIN c) \ {"clientSecret"} |-> c[k]]

(* ------------------------- inputs of the store -------------------------- *)

ExpiresInValues == {300, 600, 7200}

TokenValues == {"tok1"}

ConfigKeys == {"region", "clientId", "clientSecret", "platformEmail",
               "callbackUrl", "accessToken", "tokenExpiry", "initialized"}

PresentKeys(n) ==
  {k \in ConfigKeys : IF k = "tokenExpiry" THEN n[k] # AbsentExpiry ELSE n[k] # Absent}

\* a partial update that provides nothing
NoPartial ==
  [ region |-> Absent, clientId |-> Absent, clientSecret |-> Absent,
    platformEmail |-> Absent, callbackUrl |-> Absent, accessToken |-> Absent,
    tokenExpiry |-> AbsentExpiry, initialized |-> Absent ]

\* partial updates a caller of PUT /api/config can send; the route lets an
\* empty region through
Partials ==
  { n \in [ region        : {Absent, "eu"},
            clientId      : {Absent, "", "idA", "idB", NonString},
            clientSecret  : {Absent, "", "secA"},
            platformEmail : {Absent, "", "a+b@c.com", FalsyNonString},
            callbackUrl   : {Absent},
            accessToken   : {Absent, Null, "tok2"},
            tokenExpiry   : {AbsentExpiry, NullExpiry},
            initialized   : {Absent, "true"} ] :
      Cardinality(PresentKeys(n)) <= MaxPartialKeys }
  \cup { [NoPartial EXCEPT !.region = ""] }

\* a configuration file written by an earlier run that set the credentials
CONFIGURED ==
  [ DEFAULT_CONFIG EXCEPT !.clientId = "idA", !.clientSecret = "secA",
                          !.platformEmail = "a+b@c.com", !.initialized = TRUE ]

(* ------------------------- the list request URL ------------------------- *)

\* An e-mail address is the sequence of its characters; <<>> is an owner
\* e-mail the caller did not give (undefined or the empty string).  A page
\* number of 0 is one the caller did not give.

\* longest owner e-mail tried
MaxEmailLen == 2

\* largest page number tried
MaxPage == 2

\* characters of the e-mails tried: unreserved ones and reserved ones
EmailChars == {"a", "@", "+", " ", "%"}

\* characters encodeURIComponent leaves alone
Unreserved == {"a", "b", "c", "m", "o", ".", "-", "_", "0", "2", "4", "5", "B"}

\* the two hexadecimal digits of a character's code
HexOf(ch) ==
  CASE ch = "@" -> <<"4", "0">>
    [] ch = "+" -> <<"2", "B">>
    [] ch = " " -> <<"2", "0">>
    [] ch = "%" -> <<"2", "5">>

\* variant that escapes as encodeURI does, which keeps '@' and '+'
encodeURIChar(ch) ==
  IF ch \in Unreserved \cup {"@", "+"} THEN <<ch>> ELSE <<"%">> \o HexOf(ch)

encodeURIComponentChar(ch) ==
  IF ch \in Unreserved THEN <<ch>> ELSE <<"%">> \o HexOf(ch)

RECURSIVE encodeURIComponent(_)
encodeURIComponent(str) ==
  IF str = <<>> THEN <<>>
  ELSE encodeURIComponentChar(Head(str)) \o encodeURIComponent(Tail(str))

\* the characters of the platform e-mails the configuration holds
Chars(email) ==
  CASE email = "a+b@c.com" -> <<"a", "+", "b", "@", "c", ".", "c", "o", "m">>
    [] OTHER -> <<>>

\* an address in the manner of the ones the tests use ('test+example@...',
\* 'user with spaces@...')
TestEmail == <<"a", "+", "a", " ", "a", "@", "a", ".", "a">>

Emails == UNION { [1..n -> EmailChars] : n \in 1..MaxEmailLen } \cup {TestEmail}

NoOptions == [ownerEmail |-> <<>>, from |-> 0, to |-> 0]

NoUrl == [ownerEmail |-> <<>>, from |-> 0, to |-> 0]

\* options for every pair of pages, with no e-mail or with one
PageOptions ==
  [ownerEmail : {<<>>, <<"a", "@", "a">>}, from : 0..MaxPage, to : 0..MaxPage]

\* the options a caller of listPackages gives: every e-mail with the default
\* pages, and every pair of pages
ListOptions ==
  [ownerEmail : Emails \cup {<<>>}, from : {0}, to : {0}] \cup PageOptions

\* variant that ignores the caller's page
DefaultPage(v, default) == default

\* options.from || 1, options.to || 100
PageOr(v, default) == IF v # 0 THEN v ELSE default

\* getAllTransactions: the listOptions it hands to listPackages
ListOptionsOf(options) ==
  [ ownerEmail |-> options.ownerEmail,
    from |-> PageOr(options.from, 1), to |-> PageOr(options.to, 100) ]

\* if (!config.platformEmail)
PlatformEmailMissing(config) == ~Truthy(config.platformEmail)

\* listPackages: the URL it builds
ListUrl(options, config) ==
  [ ownerEmail |-> encodeURIComponent(IF options.ownerEmail # <<>>
                                      THEN options.ownerEmail
                                      ELSE Chars(config.platformEmail)),
    from |-> PageOr(options.from, 1), to |-> PageOr(options.to, 100) ]

\* no answer of the token endpoint, no response of the API, no result of
\* request()
NoAnswer == [none |-> TRUE]

NoResponse == [none |-> TRUE]

NoResult == [none |-> TRUE]

\* what a call that is no list request observes of options and URL, and
\* the answer of the token endpoint it went on with
NoListCall == [options |-> NoOptions, url |-> NoUrl, answer |-> NoAnswer]

(* ----------------------------- observation ------------------------------ *)

\* What the last step did: the operation, the ConfigManager instance or the
\* request it ran for, its arguments, how far it got, its outcome, whether it
\* sent a token request or an API request to the vendor, and what it returned.
\* the result of a getConfig nobody called
NotRead == [read |-> FALSE]

NoCall ==
  [ op |-> "none", cm |-> "none", ret |-> FALSE, expiresIn |-> 0, token |-> Null,
    p |-> 0, id |-> Absent, phase |-> "none", outcome |-> "none",
    fetch |-> FALSE, api |-> FALSE, refresh |-> FALSE, list |-> <<>>,
    error |-> "none", options |-> NoOptions, url |-> NoUrl,
    includeSecret |-> FALSE, got |-> NotRead, keepRegion |-> FALSE,
    answer |-> NoAnswer, response |-> NoResponse, result |-> NoResult ]

Obs(op, p, id, phase, outcome, fetch, api) ==
  [ NoCall EXCEPT !.op = op, !.p = p, !.id = id, !.phase = phase,
                  !.outcome = outcome, !.fetch = fetch, !.api = api ]

(* ------------------------- actions of the store ------------------------- *)

Applied(cm, r, name, token, expiresIn) ==
  /\ cfg' = [cfg EXCEPT ![cm] = r.config]
  /\ configFile' = IF r.wrote THEN r.file ELSE configFile
  /\ last' = [NoCall EXCEPT !.op = name, !.cm = cm, !.ret = r.ret,
                            !.token = token, !.expiresIn = expiresIn]

\* PUT /api/config, and any other caller of updateConfig
UpdateConfigFrom(cm, partials) ==
  \E n \in partials :
    /\ Applied(cm, updateConfig(cfg[cm], n, diskOk), "updateConfig", Null, 0)
    /\ UNCHANGED <<now, diskOk, txVars>>

UpdateConfig(cm) == UpdateConfigFrom(cm, Partials)

UpdateToken(cm) ==
  \E token \in TokenValues, expiresIn \in ExpiresInValues :
    /\ Applied(cm, updateToken(cfg[cm], token, expiresIn, now, diskOk),
               "updateToken", token, expiresIn)
    /\ UNCHANGED <<now, diskOk, txVars>>

\* POST /api/config/reset, and any other caller of reset
Reset(cm) ==
  \E keepRegion \in BOOLEAN :
    LET r == reset(cfg[cm], keepRegion, diskOk) IN
    /\ cfg' = [cfg EXCEPT ![cm] = r.config]
    /\ configFile' = IF r.wrote THEN r.file ELSE configFile
    /\ last' = [NoCall EXCEPT !.op = "reset", !.cm = cm, !.ret = r.ret,
                              !.keepRegion = keepRegion]
    /\ UNCHANGED <<now, diskOk, txVars>>

\* GET /api/config, and any other caller of getConfig
GetConfig(cm) ==
  \E includeSecret \in BOOLEAN :
    /\ last' = [NoCall EXCEPT !.op = "getConfig", !.cm = cm,
                              !.includeSecret = includeSecret,
                              !.got = getConfig(cfg[cm], includeSecret)]
    /\ UNCHANGED <<now, diskOk, cfg, configFile, txVars>>

\* time passes
Tick ==
  /\ now < StartNow + MaxTicks * TickMs
  /\ now' = now + TickMs
  /\ last' = NoCall
  /\ UNCHANGED <<diskOk, configFile, cfg, txVars>>

(* --------------------------- TransactionManager ------------------------- *)

\* package ids the vendor can assign
PkgIds == {"p1", "p2"}

\* the order in which the vendor lists packages
IdOrder == <<"p1", "p2">>

\* HTTP requests the server can be handling at once
Procs == {1, 2}

\* the one signer e-mail, role id and document id the callers use
ArgEmail == "s@x.com"

ArgRole == "r1"

ArgDoc == "d1"

Role1 == [id |-> "r1", email |-> "s@x.com", status |-> Absent]

\* the shapes of a package in a vendor answer
\* a package that was sent, listed with its roles
SentVariant ==
  [status |-> "SENT", typeAsString |-> "PACKAGE", hasRoles |-> TRUE, roles |-> <<Role1>>]

PkgVariants ==
  { SentVariant,
    [status |-> Absent, typeAsString |-> "PACKAGE", hasRoles |-> FALSE, roles |-> <<>>],
    [status |-> Absent, typeAsString |-> Absent, hasRoles |-> TRUE, roles |-> <<>>] }

Pkg(id, v) ==
  [ id |-> id, name |-> "Contract", status |-> v.status,
    typeAsString |-> v.typeAsString, hasRoles |-> v.hasRoles, roles |-> v.roles ]

\* the createPackage answer: the new package, not yet sent
CreatedPkg(id) ==
  [ id |-> id, name |-> "Contract", status |-> Absent, typeAsString |-> Absent,
    hasRoles |-> FALSE, roles |-> <<>> ]

NoPkg == CreatedPkg(Absent)

saveTransactions(cur, new, ok) ==
  IF ok THEN [ret |-> TRUE, transactions |-> new, wrote |-> TRUE]
        ELSE [ret |-> FALSE, transactions |-> cur, wrote |-> FALSE]

\* updatedTransactions.findIndex(t => t.id === id) + 1, 0 when there is none
findIndex(list, id) ==
  IF \E i \in 1..Len(list) : list[i].id = id
  THEN CHOOSE i \in 1..Len(list) :
         /\ list[i].id = id
         /\ \A j \in 1..(i - 1) : list[j].id # id
  ELSE 0

\* apiPackage.status || apiPackage.typeAsString || 'UNKNOWN'
StatusOf(pkg) ==
  IF Truthy(pkg.status) THEN pkg.status
  ELSE IF Truthy(pkg.typeAsString) THEN pkg.typeAsString
  ELSE "UNKNOWN"

SignerOfRole(role) ==
  [ id     |-> IF Truthy(role.id) THEN role.id ELSE "role-random",
    role   |-> Absent,
    email  |-> IF Truthy(role.email) THEN role.email ELSE "unknown@example.com",
    status |-> IF Truthy(role.status) THEN role.status ELSE "PENDING" ]

\* variant that never reads the roles
NoSigners(pkg) == <<>>

SignersOf(pkg) ==
  IF pkg.hasRoles THEN [i \in 1..Len(pkg.roles) |-> SignerOfRole(pkg.roles[i])]
  ELSE <<>>

Discovered(pkg, t) ==
  [ id |-> pkg.id,
    name |-> IF Truthy(pkg.name) THEN pkg.name ELSE "Unnamed Package",
    created |-> toISOString(t), updated |-> toISOString(t),
    status |-> StatusOf(pkg), signers |-> SignersOf(pkg), documents |-> <<>>,
    apiData |-> pkg, history |-> <<"DISCOVERED">> ]

\* variant that appends without looking the id up
MergeAlwaysAppend(list, pkg, t) == Append(list, Discovered(pkg, t))

\* variant that rebuilds an existing record from the package
MergeOverwrite(list, pkg, t) ==
  IF findIndex(list, pkg.id) > 0
  THEN [list EXCEPT ![findIndex(list, pkg.id)] = Discovered(pkg, t)]
  ELSE Append(list, Discovered(pkg, t))

\* one iteration of the forEach in updateTransactionsFromApi
MergeOne(list, pkg, t) ==
  LET existingIndex == findIndex(list, pkg.id) IN
  IF existingIndex > 0
  THEN [list EXCEPT ![existingIndex] =
          [@ EXCEPT !.status = StatusOf(pkg), !.updated = toISOString(t),
                    !.apiData = pkg]]
  ELSE Append(list, Discovered(pkg, t))

RECURSIVE MergeEach(_, _, _)
MergeEach(list, pkgs, t) ==
  IF pkgs = <<>> THEN list
  ELSE MergeEach(MergeOne(list, Head(pkgs), t), Tail(pkgs), t)

updateTransactionsFromApi(list, pkgs, t, ok) ==
  saveTransactions(list, MergeEach(list, pkgs, t), ok)

\* the record createTransaction builds from the createPackage answer
Created(response, t) ==
  [ id |-> response.id, name |-> "Contract",
    created |-> toISOString(t), updated |-> toISOString(t),
    status |-> "CREATED", signers |-> <<>>, documents |-> <<>>,
    apiData |-> response, history |-> <<"CREATE">> ]

\* the domain mutators
Mutators == {"cancel", "sendTransaction", "resendNotification", "getSigningUrl",
             "refreshStatus", "addSigner", "addDocument", "addSignatureField"}

\* the mutator the mirror is explored with next to create and getAll
CoreMutators == {"cancel"}

\* variant in which sendTransaction refuses a closed transaction
PreCheckOpenOnly(op, tx) ==
  CASE op = "resendNotification" ->
         \E i \in 1..Len(tx.signers) : tx.signers[i].email = ArgEmail
    [] op = "getSigningUrl" ->
         \E i \in 1..Len(tx.signers) : tx.signers[i].role = ArgRole
    [] op = "addSignatureField" ->
         /\ \E i \in 1..Len(tx.documents) : tx.documents[i].id = ArgDoc
         /\ \E i \in 1..Len(tx.signers) : tx.signers[i].role = ArgRole
    [] op = "sendTransaction" -> tx.status \notin {"CANCELED", "COMPLETED"}
    [] OTHER -> TRUE

\* the checks a mutator makes on the record before it calls the vendor
PreCheck(op, tx) ==
  CASE op = "resendNotification" ->
         \E i \in 1..Len(tx.signers) : tx.signers[i].email = ArgEmail
    [] op = "getSigningUrl" ->
         \E i \in 1..Len(tx.signers) : tx.signers[i].role = ArgRole
    [] op = "addSignatureField" ->
         /\ \E i \in 1..Len(tx.documents) : tx.documents[i].id = ArgDoc
         /\ \E i \in 1..Len(tx.signers) : tx.signers[i].role = ArgRole
    [] OTHER -> TRUE

\* variant that records an action once only
TouchOnce(tx, action, t) ==
  IF \E k \in 1..Len(tx.history) : tx.history[k] = action
  THEN [tx EXCEPT !.updated = toISOString(t)]
  ELSE [tx EXCEPT !.updated = toISOString(t), !.history = Append(@, action)]

Touch(tx, action, t) ==
  [tx EXCEPT !.updated = toISOString(t), !.history = Append(@, action)]

\* What a mutator does to the record it holds once the vendor has answered
\* 2xx.  ans = "ok" is an answer with the payload the mutator reads, "empty"
\* one without it (a 204, or a body lacking signers / id / url / status).
Mutate(op, tx, ans, t) ==
  CASE op = "cancel" ->
         [throws |-> FALSE, changed |-> TRUE,
          tx |-> Touch([tx EXCEPT !.status = "CANCELED"], "CANCEL", t)]
    [] op = "sendTransaction" ->
         [throws |-> FALSE, changed |-> TRUE,
          tx |-> Touch([tx EXCEPT !.status = "SENT"], "SEND", t)]
    [] op = "resendNotification" ->
         [throws |-> FALSE, changed |-> TRUE,
          tx |-> Touch(tx, "RESEND_NOTIFICATION", t)]
    [] op = "addSignatureField" ->
         [throws |-> FALSE, changed |-> TRUE,
          tx |-> Touch(tx, "ADD_SIGNATURE_FIELD", t)]
    [] op = "getSigningUrl" ->
         IF ans = "ok"
         THEN [throws |-> FALSE, changed |-> TRUE,
               tx |-> Touch(tx, "GET_SIGNING_URL", t)]
         ELSE [throws |-> TRUE, changed |-> FALSE, tx |-> tx]
    [] op = "addDocument" ->
         IF ans = "ok"
         THEN [throws |-> FALSE, changed |-> TRUE,
               tx |-> Touch([tx EXCEPT !.documents = Append(@, [id |-> ArgDoc])],
                            "ADD_DOCUMENT", t)]
         ELSE [throws |-> TRUE, changed |-> FALSE, tx |-> tx]
    [] op = "addSigner" ->
         IF ans = "ok"
         THEN [throws |-> FALSE, changed |-> TRUE,
               tx |-> Touch([tx EXCEPT !.signers =
                               Append(@, [id |-> ArgRole, role |-> ArgRole,
                                          email |-> ArgEmail, status |-> "PENDING"])],
                            "ADD_SIGNER", t)]
         ELSE [throws |-> FALSE, changed |-> FALSE, tx |-> tx]
    [] op = "refreshStatus" ->
         IF ans = "ok"
         THEN [throws |-> FALSE, changed |-> TRUE,
               tx |-> Touch([tx EXCEPT
                        !.status = "COMPLETED",
                        !.signers = [i \in 1..Len(@) |->
                                       IF @[i].id = ArgRole
                                       THEN [@[i] EXCEPT !.status = "COMPLETED"]
                                       ELSE @[i]]],
                      "REFRESH_STATUS", t)]
         ELSE [throws |-> FALSE, changed |-> TRUE,
               tx |-> Touch(tx, "REFRESH_STATUS", t)]

(* ------------------------ requests in flight ---------------------------- *)

\* A request that waits for the vendor holds the record it looked up by
\* reference.  ref is the record's position in this.transactions; mode is
\* "live" while that object is still the list's element, and "stale" once a
\* merge has put a fresh object in its place: the request then holds the old
\* object, whose scalar fields are snap and whose signers, documents and
\* history arrays are still the ones the list's element refers to.  Requests
\* holding the same stale object carry the same grp.
NoSnap ==
  [ name |-> "", created |-> NullExpiry, updated |-> NullExpiry, status |-> "",
    apiData |-> NoPkg ]

IdleProc ==
  [ op |-> "idle", pc |-> "idle", id |-> Absent, refresh |-> FALSE, ref |-> 0,
    mode |-> "none", grp |-> 0, snap |-> NoSnap, newId |-> Absent ]

SnapOf(tx) ==
  [ name |-> tx.name, created |-> tx.created, updated |-> tx.updated,
    status |-> tx.status, apiData |-> tx.apiData ]

\* the object a request holds, as the request sees it
Held(pr, list) ==
  IF pr.mode = "live" THEN list[pr.ref]
  ELSE [ list[pr.ref] EXCEPT !.name = pr.snap.name, !.created = pr.snap.created,
                             !.updated = pr.snap.updated, !.status = pr.snap.status,
                             !.apiData = pr.snap.apiData ]

MinOf(S) == CHOOSE x \in S : \A y \in S : x <= y

SameObject(ps, p, q) ==
  /\ ps[q].pc # "idle" /\ ps[q].ref = ps[p].ref /\ ps[q].mode = ps[p].mode
  /\ ps[q].grp = ps[p].grp

\* variant in which a request that ends starts over with a new token request
LeaveAndRetry(ps, p) == [ps EXCEPT ![p].pc = "auth"]

\* request p returns: the others that hold its stale object keep a common grp
Leave(ps, p) ==
  LET rest == {q \in Procs \ {p} : ps[p].mode = "stale" /\ SameObject(ps, p, q)} IN
  [q \in Procs |->
     IF q = p THEN IdleProc
     ELSE IF q \in rest THEN [ps[q] EXCEPT !.grp = MinOf(rest)]
     ELSE ps[q]]

\* a merge replaced the objects at positions idxs of old: their holders go stale
Detach(ps, idxs, old) ==
  [q \in Procs |->
     IF ps[q].mode = "live" /\ ps[q].ref \in idxs
     THEN [ps[q] EXCEPT !.mode = "stale", !.snap = SnapOf(old[ps[q].ref]),
                        !.grp = MinOf({r \in Procs : ps[r].mode = "live"
                                                     /\ ps[r].ref = ps[q].ref})]
     ELSE ps[q]]

\* positions of list whose record a merge of pkgs replaces
ReplacedBy(list, pkgs) ==
  {findIndex(list, pkgs[k].id) : k \in 1..Len(pkgs)} \ {0}

(* ----------------------------- CongaApiClient --------------------------- *)

\* the vendor issues a token that differs from the one the client holds
FreshToken(c) == IF c.accessToken = "tok1" THEN "tok2" ELSE "tok1"

\* answers of the token endpoint: not 2xx, with or without a token in the
\* body; 2xx without a token; 2xx with a token and an expires_in (0 stands
\* for an absent expires_in)
AuthAnswers(c) ==
  { [ok |-> FALSE, token |-> Absent, expires_in |-> 0],
    [ok |-> FALSE, token |-> FreshToken(c), expires_in |-> 600],
    [ok |-> TRUE, token |-> Absent, expires_in |-> 0] }
  \cup [ok : {TRUE}, token : {FreshToken(c)}, expires_in : {0, 600}]

\* variant that takes the token of any answer that carries one
AcceptsAnyStatus(a) == Truthy(a.token)

\* response.ok, and a token in the body
Accepts(a) == a.ok /\ Truthy(a.token)

\* data.expires_in || 3600
ExpiresOrDefault(e) == IF e # 0 THEN e ELSE 3600

\* variant in which getAllTransactions lets the error through
FailureRaises(op) == "error"

\* how an operation reports a failed vendor call: getAllTransactions
\* swallows it, every other operation raises
FailureOf(op) == IF op = "getAll" THEN "swallowed" ELSE "error"

FailObs(pr, p, phase) ==
  [ Obs(pr.op, p, pr.id, phase, FailureOf(pr.op), FALSE, FALSE)
      EXCEPT !.refresh = pr.refresh,
             !.list = IF pr.op = "getAll" THEN transactions ELSE <<>> ]

\* variant of authenticate without its first check
NeverUnconfigured(c) == FALSE

\* if (!this.configManager.isInitialized())
Unconfigured(c) == ~isInitialized(c)

\* variant of authenticate that skips the cache check
AlwaysFetch(c, t) == FALSE

\* "Check if we already have a valid token"
CacheHit(c, t) == isTokenValid(c, t)

\* fetch(url, requestOptions): the request leaves for the vendor.  The vendor
\* creates the package of a createPackage request when it receives it, if it
\* accepts it at all.
SendApiWith(p, pr, phase, list, o) ==
  /\ \E newId \in (IF pr.op = "create" THEN (PkgIds \ remote) \cup {Absent}
                                        ELSE {Absent}) :
       /\ procs' = [procs EXCEPT ![p] = [pr EXCEPT !.pc = "api", !.newId = newId]]
       /\ remote' = IF newId # Absent THEN remote \cup {newId} ELSE remote
  /\ last' = [Obs(pr.op, p, pr.id, phase, "pending", FALSE, TRUE)
                EXCEPT !.refresh = pr.refresh, !.options = o.options, !.url = o.url,
                       !.answer = o.answer]
  /\ transactions' = list
  /\ UNCHANGED txFile

SendApi(p, pr, phase, list) == SendApiWith(p, pr, phase, list, NoListCall)

\* request(): authenticate() up to its first await, then the API request;
\* list is this.transactions as the caller left it
\* o is what a list request observes of its options and URL
BeginWith(p, pr, list, o) ==
  IF Unconfigured(cfg["client"])
  THEN /\ last' = [FailObs(pr, p, "start")
                     EXCEPT !.error = "API client not configured",
                            !.options = o.options, !.url = o.url]
       /\ transactions' = list
       /\ UNCHANGED <<cfg, configFile, txFile, remote, procs>>
  ELSE IF CacheHit(cfg["client"], now)
  THEN /\ SendApiWith(p, pr, "start", list, o)
       /\ UNCHANGED <<cfg, configFile>>
  ELSE /\ procs' = [procs EXCEPT ![p] = [pr EXCEPT !.pc = "auth"]]
       /\ last' = [Obs(pr.op, p, pr.id, "start", "pending", TRUE, FALSE)
                     EXCEPT !.refresh = pr.refresh,
                            !.options = o.options, !.url = o.url]
       /\ transactions' = list
       /\ UNCHANGED <<cfg, configFile, txFile, remote>>

Begin(p, pr, list) == BeginWith(p, pr, list, NoListCall)

\* a new request takes the first free slot
CanStart(p) ==
  /\ procs[p].pc = "idle"
  /\ \A q \in Procs : q < p => procs[q].pc # "idle"
  /\ ops < MaxOps

\* authenticate() of the TransactionManager's client, called directly
Authenticate(p) ==
  /\ CanStart(p)
  /\ ops' = ops + 1
  /\ LET pr == [IdleProc EXCEPT !.op = "authenticate"] IN
     IF Unconfigured(cfg["client"])
     THEN /\ last' = [FailObs(pr, p, "start")
                        EXCEPT !.error = "API client not configured"]
          /\ UNCHANGED procs
     ELSE IF CacheHit(cfg["client"], now)
     THEN /\ last' = [Obs("authenticate", p, Absent, "start", "ok", FALSE, FALSE)
                        EXCEPT !.token = getConfig(cfg["client"], TRUE).accessToken]
          /\ UNCHANGED procs
     ELSE /\ procs' = [procs EXCEPT ![p] = [pr EXCEPT !.pc = "auth"]]
          /\ last' = Obs("authenticate", p, Absent, "start", "pending", TRUE, FALSE)
  /\ UNCHANGED <<now, diskOk, cfg, configFile, transactions, txFile, remote>>

\* the token endpoint answers the request of p with one of answers
AuthAnswerFrom(p, answers) ==
  /\ procs[p].pc = "auth"
  /\ \E a \in answers :
       IF ~Accepts(a)
       THEN /\ procs' = Leave(procs, p)
            /\ last' = [FailObs(procs[p], p, "auth")
                          EXCEPT !.answer = a,
                                 !.error = IF ~a.ok THEN "Authentication failed"
                                           ELSE "No token received"]
            /\ UNCHANGED <<cfg, configFile, transactions, txFile, remote>>
       ELSE LET r == updateToken(cfg["client"], a.token,
                                 ExpiresOrDefault(a.expires_in), now, diskOk) IN
            /\ cfg' = [cfg EXCEPT !["client"] = r.config]
            /\ configFile' = IF r.wrote THEN r.file ELSE configFile
            /\ IF procs[p].op = "authenticate"
               THEN /\ procs' = Leave(procs, p)
                    /\ last' = [Obs("authenticate", p, Absent, "auth", "ok", FALSE, FALSE)
                                  EXCEPT !.token = a.token, !.answer = a,
                                         !.expiresIn = ExpiresOrDefault(a.expires_in)]
                    /\ UNCHANGED <<transactions, txFile, remote>>
               ELSE SendApiWith(p, procs[p], "auth", transactions,
                                [NoListCall EXCEPT !.answer = a])
  /\ UNCHANGED <<now, diskOk, ops>>

\* the token endpoint answers the request of p
AuthAnswer(p) == AuthAnswerFrom(p, AuthAnswers(cfg["client"]))

\* accepted answers whose expires_in is absent (0), below, at and above the
\* five minutes updateToken subtracts
LifetimeAnswers(c) ==
  [ok : {TRUE}, token : {FreshToken(c)}, expires_in : {0, 60, 300, 600}]

\* the token endpoint accepts the request of p and grants some lifetime
AuthAnswerLifetime(p) == AuthAnswerFrom(p, LifetimeAnswers(cfg["client"]))

(* ------------------------- request() and its answer -------------------- *)

\* response bodies: a JSON text, a text that is no JSON, nothing
Bodies == {"{\"id\":\"p1\"}", "oops", ""}

\* JSON.parse of a body: the value, or a SyntaxError
JSONParse(text) ==
  IF text = "{\"id\":\"p1\"}" THEN [ok |-> TRUE, value |-> [id |-> "p1"]]
  ELSE [ok |-> FALSE, value |-> "SyntaxError"]

\* content-type headers: none, JSON, JSON with a charset, plain text
ContentTypes == {Null, "application/json", "application/json; charset=utf-8", "text/plain"}

\* contentType && contentType.includes('application/json')
IsJson(contentType) ==
  contentType \in {"application/json", "application/json; charset=utf-8"}

\* what fetch() brings back: a response, or a rejection (network error)
Responses ==
  [ rejected : {FALSE}, status : {200, 201, 204, 400, 404, 500},
    contentType : ContentTypes, body : Bodies ]
  \cup { [rejected |-> TRUE, status |-> 0, contentType |-> Null, body |-> ""] }

\* response.ok
ResponseOk(status) == status \in 200..299

\* the outcomes of request(): a value returned, or an error thrown; read is
\* how the body was read
Returned(value, read) ==
  [outcome |-> "ok", value |-> value, error |-> "none", status |-> 0,
   text |-> "", read |-> read]

Thrown(error, status, text, read) ==
  [outcome |-> "error", value |-> Absent, error |-> error, status |-> status,
   text |-> text, read |-> read]

\* variant that tests response.ok before the status 204
ClassifyOkFirst(r) ==
  IF r.rejected THEN Thrown("API request failed", 0, "", "none")
  ELSE IF ~ResponseOk(r.status)
  THEN Thrown("API request failed", r.status, r.body, "text")
  ELSE Returned([success |-> TRUE, text |-> r.body, status |-> r.status], "text")

\* request() from the answer of fetch on
Classify(r) ==
  IF r.rejected THEN Thrown("API request failed", 0, "", "none")
  ELSE IF r.status = 204 THEN Returned([success |-> TRUE], "none")
  ELSE IF ~ResponseOk(r.status)
  THEN Thrown("API request failed", r.status, r.body, "text")
  ELSE IF IsJson(r.contentType)
  THEN LET parsed == JSONParse(r.body) IN
       IF parsed.ok THEN Returned(parsed.value, "json")
       ELSE Thrown("API request failed", 0, "", "json")
  ELSE Returned([success |-> TRUE, text |-> r.body, status |-> r.status], "text")

\* request(endpoint) called on its own, up to its first await
Request(p) ==
  /\ CanStart(p)
  /\ ops' = ops + 1
  /\ Begin(p, [IdleProc EXCEPT !.op = "request"], transactions)
  /\ UNCHANGED <<now, diskOk>>

\* fetch answers the request of p
RequestAnswer(p) ==
  /\ procs[p].pc = "api" /\ procs[p].op = "request"
  /\ \E r \in Responses :
       last' = [Obs("request", p, Absent, "api", Classify(r).outcome, FALSE, FALSE)
                  EXCEPT !.response = r, !.result = Classify(r)]
  /\ procs' = Leave(procs, p)
  /\ UNCHANGED <<now, diskOk, cfg, configFile, transactions, txFile, remote, ops>>

(* --------------------- TransactionManager operations -------------------- *)

ReturnObs(pr, p, phase, outcome, list) ==
  [ Obs(pr.op, p, pr.id, phase, outcome, FALSE, FALSE)
      EXCEPT !.refresh = pr.refresh, !.list = list ]

\* variant that refreshes whatever the caller asked for
RefreshAlways(refresh) == TRUE

\* if (refresh)
Refreshes(refresh) == refresh

\* listPackages(options) up to its first await, called for the request pr:
\* it checks the platform e-mail, builds the URL, then request() runs.  The
\* observation keeps the options the caller of pr gave.
listPackagesStart(p, pr, options, given) ==
  LET config == getConfig(cfg["client"], FALSE) IN
  IF PlatformEmailMissing(config)
  THEN /\ last' = [FailObs(pr, p, "start")
                     EXCEPT !.error = "Platform email not configured",
                            !.options = given]
       /\ UNCHANGED <<cfg, configFile, transactions, txFile, remote, procs>>
  ELSE BeginWith(p, pr, transactions,
                 [NoListCall EXCEPT !.options = given,
                                    !.url = ListUrl(options, config)])

\* getAllTransactions(refresh, options) up to its first await: without
\* refresh it returns a copy of the list; with refresh it calls listPackages
GetAllCall(p, refreshes, optionSet) ==
  /\ CanStart(p)
  /\ ops' = ops + 1
  /\ \E refresh \in refreshes, options \in optionSet :
       LET pr == [IdleProc EXCEPT !.op = "getAll", !.refresh = refresh] IN
       IF ~Refreshes(refresh)
       THEN /\ last' = ReturnObs(pr, p, "start", "ok", transactions)
            /\ UNCHANGED <<cfg, configFile, transactions, txFile, remote, procs>>
       ELSE listPackagesStart(p, pr, ListOptionsOf(options), options)
  /\ UNCHANGED <<now, diskOk>>

\* getAllTransactions(refresh), no options given
GetAll(p) == GetAllCall(p, BOOLEAN, {NoOptions})

\* getAllTransactions(true, options)
GetAllWith(p) == GetAllCall(p, {TRUE}, PageOptions)

\* apiClient.listPackages(options), called on its own
ListPackages(p) ==
  /\ CanStart(p)
  /\ ops' = ops + 1
  /\ \E options \in ListOptions :
       listPackagesStart(p, [IdleProc EXCEPT !.op = "listPackages"], options, options)
  /\ UNCHANGED <<now, diskOk>>

\* the vendor answers the request of a listPackages call made on its own:
\* the response is returned as it is
ListPackagesAnswer(p) ==
  /\ procs[p].pc = "api" /\ procs[p].op = "listPackages"
  /\ procs' = Leave(procs, p)
  /\ last' = Obs("listPackages", p, Absent, "api", "ok", FALSE, FALSE)
  /\ UNCHANGED <<now, diskOk, cfg, configFile, transactions, txFile, remote, ops>>

\* the packages of a list answer: some of the vendor's packages, in the
\* vendor's order, each in one of the shapes
RECURSIVE Listing(_, _, _)
Listing(k, listed, shape) ==
  IF k > Len(IdOrder) THEN <<>>
  ELSE IF IdOrder[k] \in listed
       THEN <<Pkg(IdOrder[k], shape[IdOrder[k]])>> \o Listing(k + 1, listed, shape)
       ELSE Listing(k + 1, listed, shape)

\* the body of a list answer: field names the key(s) under which an array
\* arrives ("both": pkgs under packages and other under results)
ApiResponse(field, pkgs, other) ==
  [ packagesIsArray |-> field \in {"packages", "both"},
    packages        |-> IF field \in {"packages", "both"} THEN pkgs ELSE <<>>,
    resultsIsArray  |-> field \in {"results", "both"},
    results         |-> IF field = "results" THEN pkgs
                        ELSE IF field = "both" THEN other ELSE <<>> ]

\* variant that looks under results first
PackagesDataResultsFirst(resp) ==
  IF resp.resultsIsArray THEN [found |-> TRUE, data |-> resp.results]
  ELSE IF resp.packagesIsArray THEN [found |-> TRUE, data |-> resp.packages]
  ELSE [found |-> FALSE, data |-> <<>>]

\* packagesData: the array under packages, else the array under results
PackagesData(resp) ==
  IF resp.packagesIsArray THEN [found |-> TRUE, data |-> resp.packages]
  ELSE IF resp.resultsIsArray THEN [found |-> TRUE, data |-> resp.results]
  ELSE [found |-> FALSE, data |-> <<>>]

\* the vendor answers the list request of p with 2xx and the body resp;
\* seen tells whether the body is kept in the observation
ListAnswerOf(p, resp, seen) ==
  LET d    == PackagesData(resp)
      pkgs == d.data
      obs  == IF seen THEN resp ELSE NoResponse IN
  IF ~d.found
  THEN /\ procs' = Leave(procs, p)
       /\ last' = [ReturnObs(procs[p], p, "api", "ok", transactions)
                     EXCEPT !.response = obs]
       /\ UNCHANGED <<transactions, txFile>>
  ELSE LET r == updateTransactionsFromApi(transactions, pkgs, now, diskOk) IN
       /\ transactions' = r.transactions
       /\ txFile' = IF r.wrote THEN r.transactions ELSE txFile
       /\ procs' = IF r.wrote
                   THEN Leave(Detach(procs, ReplacedBy(transactions, pkgs),
                                     transactions), p)
                   ELSE Leave(procs, p)
       /\ last' = [ReturnObs(procs[p], p, "api", "ok", r.transactions)
                     EXCEPT !.response = obs]

\* the vendor answers the list request of p with 2xx
ListAnswer(p) ==
  /\ procs[p].pc = "api" /\ procs[p].op = "getAll"
  /\ \E field \in {"packages", "results", "none"}, listed \in SUBSET remote :
     \E shape \in [listed -> PkgVariants] :
       ListAnswerOf(p, ApiResponse(field, Listing(1, listed, shape), <<>>), FALSE)
  /\ UNCHANGED <<now, diskOk, cfg, configFile, remote, ops>>

\* the same, the answer possibly carrying an array under both keys
ListAnswerSeen(p) ==
  /\ procs[p].pc = "api" /\ procs[p].op = "getAll"
  /\ \E field \in {"packages", "results", "none", "both"},
        listed \in SUBSET remote, listed2 \in SUBSET remote :
     \E shape \in [listed -> PkgVariants] :
       /\ (field # "both" => listed2 = {})
       /\ ListAnswerOf(p, ApiResponse(field, Listing(1, listed, shape),
                                      Listing(1, listed2,
                                              [id \in listed2 |-> SentVariant])),
                       TRUE)
  /\ UNCHANGED <<now, diskOk, cfg, configFile, remote, ops>>

\* the vendor answers the API request of p with a status that is not 2xx, or
\* the request fails in transport
ApiFailure(p) ==
  /\ procs[p].pc = "api"
  /\ procs' = Leave(procs, p)
  /\ last' = FailObs(procs[p], p, "api")
  /\ UNCHANGED <<now, diskOk, cfg, configFile, transactions, txFile, remote, ops>>

\* getTransactionById(id, refresh).  The lookup in the vendor goes through
\* apiClient.getTransactionDetails, which the API client of this build does
\* not define: the call raises a TypeError inside the try block before any
\* request is made, and the method returns the local record or null.
GetTransactionById(p) ==
  /\ CanStart(p)
  /\ ops' = ops + 1
  /\ \E id \in PkgIds, refresh \in BOOLEAN :
       last' = [Obs("getById", p, id, "start",
                    IF findIndex(transactions, id) > 0 THEN "ok" ELSE "null",
                    FALSE, FALSE) EXCEPT !.refresh = refresh]
  /\ UNCHANGED <<now, diskOk, cfg, configFile, transactions, txFile, remote, procs>>

\* createTransaction up to its first await
CreateStart(p) ==
  /\ CanStart(p)
  /\ ops' = ops + 1
  /\ Begin(p, [IdleProc EXCEPT !.op = "create"], transactions)
  /\ UNCHANGED <<now, diskOk>>

\* [...this.transactions, transaction]
AppendCreated(list, tx) == Append(list, tx)

\* the vendor answers the createPackage request of p with the new package
CreateAnswer(p) ==
  /\ procs[p].pc = "api" /\ procs[p].op = "create" /\ procs[p].newId # Absent
  /\ LET tx == Created(CreatedPkg(procs[p].newId), now)
         r  == saveTransactions(transactions, AppendCreated(transactions, tx), diskOk)
     IN /\ transactions' = r.transactions
        /\ txFile' = IF r.wrote THEN r.transactions ELSE txFile
        /\ last' = [Obs("create", p, procs[p].newId, "api", "ok", FALSE, FALSE)
                      EXCEPT !.id = procs[p].newId]
  /\ procs' = Leave(procs, p)
  /\ UNCHANGED <<now, diskOk, cfg, configFile, remote, ops>>

\* variant of a mutator that applies its change before it calls the vendor
OptimisticList(list, op, i, t) ==
  [list EXCEPT ![i] = Mutate(op, list[i], "ok", t).tx]

\* the statements of a mutator between the lookup and the vendor call:
\* they leave this.transactions alone
BeforeCall(list, op, i, t) == list

\* variant of the lookup that reports every id as present
LookupFirst(list, id) == IF Len(list) > 0 THEN 1 ELSE 0

\* const transaction = await this.getTransactionById(transactionId)
Lookup(list, id) == findIndex(list, id)

\* a domain mutator, one of ms, up to its first await: look the record up,
\* check it, then call the vendor
MutatorStart(p, ms) ==
  /\ CanStart(p)
  /\ ops' = ops + 1
  /\ \E op \in ms, id \in PkgIds :
       LET i  == Lookup(transactions, id)
           pr == [IdleProc EXCEPT !.op = op, !.id = id, !.ref = i, !.mode = "live"]
       IN IF i = 0
          THEN /\ last' = Obs(op, p, id, "start", "notfound", FALSE, FALSE)
               /\ UNCHANGED <<cfg, configFile, transactions, txFile, remote, procs>>
          ELSE IF ~PreCheck(op, transactions[i])
          THEN /\ last' = Obs(op, p, id, "start", "error", FALSE, FALSE)
               /\ UNCHANGED <<cfg, configFile, transactions, txFile, remote, procs>>
          ELSE Begin(p, pr, BeforeCall(transactions, op, i, now))
  /\ UNCHANGED <<now, diskOk>>

\* the list after the holder pr has changed its object into tx in place
InPlace(list, pr, tx) ==
  IF pr.mode = "live" THEN [list EXCEPT ![pr.ref] = tx]
  ELSE [list EXCEPT ![pr.ref] = [@ EXCEPT !.signers = tx.signers,
                                         !.documents = tx.documents,
                                         !.history = tx.history]]

\* variant that keeps the changed record only
MapKeepChanged(list, id, tx) == <<tx>>

\* this.transactions.map(t => t.id === transactionId ? transaction : t)
MapReplace(list, id, tx) ==
  [i \in 1..Len(list) |-> IF list[i].id = id THEN tx ELSE list[i]]

\* the holders of the record at p's position after p has put its object
\* into the list: those holding the same object hold the list's element
\* again, those that held the replaced element hold a stale object
AfterPut(ps, p, old) ==
  [q \in Procs |->
     IF q = p THEN IdleProc
     ELSE IF ps[q].pc = "idle" \/ ps[q].ref # ps[p].ref \/ ps[p].mode = "live"
     THEN ps[q]
     ELSE IF ps[q].mode = "stale" /\ ps[q].grp = ps[p].grp
     THEN [ps[q] EXCEPT !.mode = "live", !.snap = NoSnap, !.grp = 0]
     ELSE IF ps[q].mode = "live"
     THEN [ps[q] EXCEPT !.mode = "stale", !.snap = SnapOf(old[ps[q].ref]),
                        !.grp = MinOf({r \in Procs \ {p} :
                                         ps[r].mode = "live" /\ ps[r].ref = ps[q].ref})]
     ELSE ps[q]]

\* the write failed: the object p changed in place is not put into the
\* list, the others that hold the same stale object see the change
AfterFailedPut(ps, p, tx) ==
  Leave([q \in Procs |->
           IF q # p /\ ps[p].mode = "stale" /\ SameObject(ps, p, q)
           THEN [ps[q] EXCEPT !.snap = SnapOf(tx)]
           ELSE ps[q]], p)

\* the vendor answers the API request of mutator p with 2xx
MutatorAnswer(p) ==
  /\ procs[p].pc = "api" /\ procs[p].op \in Mutators
  /\ \E ans \in {"ok", "empty"} :
       LET pr == procs[p]
           m  == Mutate(pr.op, Held(pr, transactions), ans, now)
           l0 == InPlace(transactions, pr, m.tx)
           r  == saveTransactions(l0, MapReplace(l0, pr.id, m.tx), diskOk)
       IN IF m.throws
          THEN /\ procs' = Leave(procs, p)
               /\ last' = FailObs(pr, p, "api")
               /\ UNCHANGED <<transactions, txFile>>
          ELSE IF ~m.changed
          THEN /\ procs' = Leave(procs, p)
               /\ last' = Obs(pr.op, p, pr.id, "api", "ok", FALSE, FALSE)
               /\ UNCHANGED <<transactions, txFile>>
          ELSE /\ transactions' = r.transactions
               /\ txFile' = IF r.wrote THEN r.transactions ELSE txFile
               /\ procs' = IF r.wrote THEN AfterPut(procs, p, l0)
                                      ELSE AfterFailedPut(procs, p, m.tx)
               /\ last' = Obs(pr.op, p, pr.id, "api", "ok", FALSE, FALSE)
  /\ UNCHANGED <<now, diskOk, cfg, configFile, remote, ops>>

\* TransactionManager.reset(), explored while no request holds a record
TMReset ==
  /\ ops < MaxOps
  /\ \A q \in Procs : procs[q].ref = 0
  /\ ops' = ops + 1
  /\ LET r == saveTransactions(transactions, <<>>, diskOk) IN
       /\ transactions' = r.transactions
       /\ txFile' = IF r.wrote THEN r.transactions ELSE txFile
       /\ last' = [Obs("reset", 0, Absent, "start", "ok", FALSE, FALSE)
                     EXCEPT !.ret = r.ret]
  /\ UNCHANGED <<now, diskOk, cfg, configFile, remote, procs>>

(* ---------------------------- specifications ---------------------------- *)

\* constructor on a fresh data directory: loadConfig finds no file, writes
\* the defaults and every instance starts from them
InitStore ==
  /\ now = StartNow
  /\ diskOk = TRUE
  /\ configFile = DEFAULT_CONFIG
  /\ cfg = [cm \in CMs |-> DEFAULT_CONFIG]
  /\ transactions = <<>>
  /\ txFile = <<>>
  /\ remote = {"p1"}
  /\ procs = [p \in Procs |-> IdleProc]
  /\ ops = 0
  /\ last = NoCall

NextStore ==
  \/ UpdateConfig("route")
  \/ UpdateToken("route")
  \/ Reset("route")
  \/ GetConfig("route")
  \/ Tick

\* the configuration store on its own
SpecStore == InitStore /\ [][NextStore]_vars

\* a record an earlier run created and gave a signer and a document
StoredTx ==
  Mutate("addDocument",
         Mutate("addSigner", Created(CreatedPkg("p1"), StartNow), "ok", StartNow).tx,
         "ok", StartNow).tx

\* process start: every ConfigManager loads the configuration file, which
\* holds the defaults or the credentials an earlier run stored; the
\* TransactionManager loads the transaction file, which is new or holds a
\* record of an earlier run; the vendor holds that one package
Init ==
  /\ now = StartNow
  /\ diskOk = TRUE
  /\ configFile \in {DEFAULT_CONFIG, CONFIGURED}
  /\ cfg = [cm \in CMs |-> configFile]
  /\ txFile \in {<<>>, <<StoredTx>>}
  /\ transactions = txFile
  /\ remote = {"p1"}
  /\ procs = [p \in Procs |-> IdleProc]
  /\ ops = 0
  /\ last = NoCall

Next ==
  \/ \E p \in Procs :
       \/ Authenticate(p)
       \/ AuthAnswer(p)
       \/ GetAll(p)
       \/ ListAnswer(p)
       \/ ApiFailure(p)
       \/ GetTransactionById(p)
       \/ CreateStart(p)
       \/ CreateAnswer(p)
       \/ MutatorStart(p, CoreMutators)
       \/ MutatorAnswer(p)
  \/ TMReset
  \/ Tick

\* the API client and the transaction mirror
Spec == Init /\ [][Next]_vars

NextMutators ==
  \/ \E p \in Procs :
       \/ AuthAnswer(p)
       \/ ApiFailure(p)
       \/ MutatorStart(p, Mutators)
       \/ MutatorAnswer(p)
  \/ Tick

\* every domain mutator, alone and against each other
SpecMutators == Init /\ [][NextMutators]_vars

(* ----------------------- mutators on a doubled id ----------------------- *)

\* the list an earlier run left when a refresh discovered the package p2
\* while the createTransaction that had made it still awaited its answer:
\* the merge appended a discovered record, then createTransaction appended
\* its own
DoubledList ==
  AppendCreated(
    MergeEach(<<>>, <<Pkg("p2", [status |-> "SENT", typeAsString |-> "PACKAGE",
                                 hasRoles |-> TRUE, roles |-> <<Role1>>])>>,
              StartNow),
    Created(CreatedPkg("p2"), StartNow))

InitDoubled ==
  /\ now = StartNow
  /\ diskOk = TRUE
  /\ configFile = CONFIGURED
  /\ cfg = [cm \in CMs |-> configFile]
  /\ txFile = DoubledList
  /\ transactions = txFile
  /\ remote = {"p1", "p2"}
  /\ procs = [p \in Procs |-> IdleProc]
  /\ ops = 0
  /\ last = NoCall

\* every domain mutator on a list that holds an id twice
SpecDoubled == InitDoubled /\ [][NextMutators]_vars

(* ------------------------- the routes of the process ------------------- *)

\* The process holds four ConfigManager instances, each with the record it
\* loaded when it was constructed: the one of the configuration routes
\* ("route"), the one of the auth routes ("auth"), the one inside the auth
\* routes' CongaApiClient ("authClient") and the one inside the
\* TransactionManager's CongaApiClient ("client").  They share the file.

\* bodies of PUT /api/config: all the credentials, another client id
ProcessPartials ==
  { [NoPartial EXCEPT !.clientId = "idA", !.clientSecret = "secA",
                      !.platformEmail = "a+b@c.com"],
    [NoPartial EXCEPT !.clientId = "idB"] }

\* PUT /api/config
PutConfig == UpdateConfigFrom("route", ProcessPartials)

\* the response of POST /api/auth/token after authenticate() returned token
TokenResponse(p, phase, fetch, token, authCfg) ==
  [ Obs("token", p, Absent, phase, "ok", fetch, FALSE)
      EXCEPT !.token = token,
             !.got = [success |-> TRUE, expiresAt |-> authCfg.tokenExpiry] ]

\* POST /api/auth/token up to its first await: the route's own
\* ConfigManager answers isInitialized(), then the route's client
\* authenticates
PostToken(p) ==
  /\ CanStart(p)
  /\ ops' = ops + 1
  /\ LET pr == [IdleProc EXCEPT !.op = "token"] IN
     IF ~isInitialized(cfg["auth"])
     THEN /\ last' = [FailObs(pr, p, "start") EXCEPT !.error = "Missing credentials"]
          /\ UNCHANGED procs
     ELSE IF Unconfigured(cfg["authClient"])
     THEN /\ last' = [FailObs(pr, p, "start")
                        EXCEPT !.error = "API client not configured"]
          /\ UNCHANGED procs
     ELSE IF CacheHit(cfg["authClient"], now)
     THEN /\ last' = TokenResponse(p, "start", FALSE,
                                   getConfig(cfg["authClient"], TRUE).accessToken,
                                   getConfig(cfg["auth"], FALSE))
          /\ UNCHANGED procs
     ELSE /\ procs' = [procs EXCEPT ![p] = [pr EXCEPT !.pc = "tokenAuth"]]
          /\ last' = Obs("token", p, Absent, "start", "pending", TRUE, FALSE)
  /\ UNCHANGED <<now, diskOk, cfg, configFile, transactions, txFile, remote>>

\* the token endpoint answers the authenticate() of POST /api/auth/token
PostTokenAnswer(p) ==
  /\ procs[p].pc = "tokenAuth"
  /\ procs' = Leave(procs, p)
  /\ \E a \in AuthAnswers(cfg["authClient"]) :
       IF ~Accepts(a)
       THEN /\ last' = [FailObs(procs[p], p, "auth")
                          EXCEPT !.answer = a,
                                 !.error = IF ~a.ok THEN "Authentication failed"
                                           ELSE "No token received"]
            /\ UNCHANGED <<cfg, configFile>>
       ELSE LET r == updateToken(cfg["authClient"], a.token,
                                 ExpiresOrDefault(a.expires_in), now, diskOk) IN
            /\ cfg' = [cfg EXCEPT !["authClient"] = r.config]
            /\ configFile' = IF r.wrote THEN r.file ELSE configFile
            /\ last' = [TokenResponse(p, "auth", FALSE, a.token,
                                      getConfig(cfg["auth"], FALSE))
                          EXCEPT !.answer = a]
  /\ UNCHANGED <<now, diskOk, transactions, txFile, remote, ops>>

\* GET /api/auth/status
GetStatus ==
  /\ last' = [NoCall EXCEPT
                !.op = "status",
                !.got = [valid |-> isTokenValid(cfg["auth"], now),
                         initialized |-> isInitialized(cfg["auth"]),
                         expiresAt |-> getConfig(cfg["auth"], FALSE).tokenExpiry]]
  /\ UNCHANGED <<now, diskOk, cfg, configFile, txVars>>

\* POST /api/auth/revoke
PostRevoke ==
  /\ Applied("auth",
             updateConfig(cfg["auth"],
                          [NoPartial EXCEPT !.accessToken = Null,
                                            !.tokenExpiry = NullExpiry], diskOk),
             "revoke", Null, 0)
  /\ UNCHANGED <<now, diskOk, txVars>>

\* POST /api/reset: a new ConfigManager loads the file and resets, a new
\* TransactionManager loads the list and resets; the route answers success
\* whatever the two return
PostReset ==
  /\ \E keepEnvironment \in BOOLEAN :
       LET r == reset(configFile, keepEnvironment, diskOk)
           t == saveTransactions(txFile, <<>>, diskOk) IN
       /\ configFile' = IF r.wrote THEN r.file ELSE configFile
       /\ txFile' = IF t.wrote THEN t.transactions ELSE txFile
       /\ last' = [NoCall EXCEPT !.op = "appReset", !.ret = TRUE,
                                 !.keepRegion = keepEnvironment]
  /\ UNCHANGED <<now, diskOk, cfg, transactions, remote, procs, ops>>

\* GET /api/transactions without refresh
GetAllLocal(p) == GetAllCall(p, {FALSE}, {NoOptions})

NextProcess ==
  \/ PutConfig
  \/ GetStatus
  \/ PostRevoke
  \/ PostReset
  \/ \E p \in Procs :
       \/ PostToken(p)
       \/ PostTokenAnswer(p)
       \/ Authenticate(p)
       \/ AuthAnswer(p)
       \/ GetAllLocal(p)
  \/ Tick

\* the routes of one running process
SpecProcess == Init /\ [][NextProcess]_vars

(* ---------------------------- the API client --------------------------- *)

NextClient ==
  \/ \E p \in Procs :
       \/ Authenticate(p)
       \/ AuthAnswer(p)
       \/ Request(p)
       \/ RequestAnswer(p)
  \/ Tick

\* authenticate() and request() of the API client
SpecClient == Init /\ [][NextClient]_vars

(* --------------------------- the list request -------------------------- *)

\* configuration files an earlier run can have left: the defaults, all of
\* the credentials, the platform e-mail alone, the credentials alone
StoredConfigs ==
  { DEFAULT_CONFIG, CONFIGURED,
    [DEFAULT_CONFIG EXCEPT !.platformEmail = "a+b@c.com"],
    [DEFAULT_CONFIG EXCEPT !.clientId = "idA", !.clientSecret = "secA"] }

InitList ==
  /\ now = StartNow
  /\ diskOk = TRUE
  /\ configFile \in StoredConfigs
  /\ cfg = [cm \in CMs |-> configFile]
  /\ txFile = <<>>
  /\ transactions = txFile
  /\ remote = {"p1"}
  /\ procs = [p \in Procs |-> IdleProc]
  /\ ops = 0
  /\ last = NoCall

\* one caller at a time: the URL depends on nothing another call does
NextList ==
  \E p \in {1} :
    \/ ListPackages(p)
    \/ ListPackagesAnswer(p)
    \/ GetAllWith(p)
    \/ ListAnswer(p)
    \/ AuthAnswer(p)
    \/ ApiFailure(p)

\* listPackages, called on its own and by getAllTransactions
SpecList == InitList /\ [][NextList]_vars

(* ------------------------- the merge on its own ------------------------- *)

\* packages in one vendor answer
MaxBatch == 2

Role2 == [id |-> "r2", email |-> Absent, status |-> "SIGNED"]

\* the shapes of a package handed to updateTransactionsFromApi: a status
\* and two roles; a type and no roles property; neither and an empty array
MergeVariants ==
  { [status |-> "SENT", typeAsString |-> "PACKAGE", hasRoles |-> TRUE,
     roles |-> <<Role1, Role2>>],
    [status |-> Absent, typeAsString |-> "PACKAGE", hasRoles |-> FALSE, roles |-> <<>>],
    [status |-> Absent, typeAsString |-> Absent, hasRoles |-> TRUE, roles |-> <<>>] }

\* the arrays updateTransactionsFromApi can be given: any packages in any
\* order, the same id more than once included
Batches ==
  UNION { [1..n -> {Pkg(id, v) : id \in PkgIds, v \in MergeVariants}] :
          n \in 0..MaxBatch }

\* updateTransactionsFromApi(apiPackages), called on its own
MergeBatch ==
  /\ \E pkgs \in Batches :
       LET r == updateTransactionsFromApi(transactions, pkgs, now, diskOk) IN
       /\ transactions' = r.transactions
       /\ txFile' = IF r.wrote THEN r.transactions ELSE txFile
       /\ last' = [NoCall EXCEPT !.op = "merge", !.ret = r.ret]
  /\ UNCHANGED <<now, diskOk, cfg, configFile, remote, procs, ops>>

NextMerge == MergeBatch \/ Tick

\* process start with the credentials stored: the list is new or holds the
\* record of an earlier run
InitMerge == Init /\ configFile = CONFIGURED

\* the reconciliation of the list with vendor answers
SpecMerge == InitMerge /\ [][NextMerge]_vars

(* ---------------------- properties: ConfigManager ----------------------- *)

\* a value that is a string and not the empty one
NonEmptyString(v) == IsString(v) /\ v # ""

\* C2: every updateConfig that succeeds and leaves clientId or clientSecret
\* different from the stored value leaves accessToken and tokenExpiry null,
\* whatever else the partial carries.
C2_CredentialChangeClearsToken ==
  [][ ( /\ last'.op = "updateConfig" /\ last'.ret
        /\ \/ cfg'["route"].clientId # cfg["route"].clientId
           \/ cfg'["route"].clientSecret # cfg["route"].clientSecret )
      => ( /\ cfg'["route"].accessToken = Null
           /\ cfg'["route"].tokenExpiry = NullExpiry ) ]_vars

C4_InitializedIffThreeNonEmpty ==
  LET c == cfg["route"] IN
  isInitialized(c) <=>
    ( /\ NonEmptyString(c.clientId)
      /\ NonEmptyString(c.clientSecret)
      /\ NonEmptyString(c.platformEmail) )

\* an update has completed the three fields
C4_BecameInitialized ==
  /\ last.op = "updateConfig" /\ last.ret
  /\ isInitialized(cfg["route"])

\* C5: after updateToken(token, expiresIn) succeeds, accessToken is token and
\* tokenExpiry reads back as now + expiresIn * 1000 - 300000 milliseconds.
C5_ExpiryIsNowPlusLifetimeMinusMargin ==
  (last.op = "updateToken" /\ last.ret) =>
    ( /\ cfg["route"].accessToken = last.token
      /\ cfg["route"].tokenExpiry # NullExpiry
      /\ DateParse(cfg["route"].tokenExpiry) = now + last.expiresIn * 1000 - 300000 )

\* the scenario of a token obtained with expiresIn = 7200
C5_TwoHourToken ==
  /\ last.op = "updateToken" /\ last.ret /\ last.expiresIn = 7200
  /\ DateParse(cfg["route"].tokenExpiry) = now + 6900000

(* ------------------- properties: CongaApiClient, mirror ----------------- *)

\* the in-memory list and the persisted list are what they were
ListsUnchanged == transactions' = transactions /\ txFile' = txFile

\* C1: a token request leaves for the vendor only in a step that finds the
\* cached token not valid; while the token is valid authenticate() returns
\* the cached accessToken in the same step, sends nothing and stores nothing,
\* and a request() goes straight to its API call.
C1_FetchOnlyWhenTokenInvalid ==
  [][ /\ last'.fetch => ~isTokenValid(cfg["client"], now)
      /\ ( /\ last'.op = "authenticate" /\ last'.phase = "start"
           /\ isInitialized(cfg["client"]) /\ isTokenValid(cfg["client"], now) )
         => ( /\ last'.outcome = "ok"
              /\ last'.token = cfg["client"].accessToken
              /\ ~last'.fetch /\ ~last'.api
              /\ cfg' = cfg /\ configFile' = configFile /\ procs' = procs )
      /\ ( /\ last'.phase = "start" /\ last'.outcome = "pending"
           /\ isTokenValid(cfg["client"], now) )
         => ( last'.api /\ last'.op # "authenticate" /\ cfg' = cfg ) ]_vars

\* a second authenticate() was answered from the cache
C1_AnsweredFromCache ==
  /\ last.op = "authenticate" /\ last.phase = "start" /\ last.outcome = "ok"
  /\ last.token = cfg["client"].accessToken
  /\ isTokenValid(cfg["client"], now)

\* C6: a domain mutator whose vendor call has been sent ends by returning
\* or by raising, never by swallowing the failure, and no step of a mutator
\* other than its successful completion changes the in-memory list or the
\* persisted list.
C6_FailedMutatorLeavesListsUntouched ==
  [][ last'.op \in Mutators =>
        /\ last'.outcome \in {"pending", "ok", "error", "notfound"}
        /\ (procs[last'.p].pc # "idle" /\ procs'[last'.p].pc = "idle")
             => last'.outcome \in {"ok", "error"}
        /\ last'.outcome # "ok" => ListsUnchanged ]_vars

\* the vendor call of a mutator that held a record has failed
C6_VendorCallFailed ==
  /\ last.op \in Mutators /\ last.phase = "api" /\ last.outcome = "error"
  /\ findIndex(transactions, last.id) > 0

\* C7: getAll(refresh=true) never raises; the step in which its vendor call
\* fails (configuration, authentication, transport or status) changes
\* neither list and returns the in-memory list as that step found it.
C7_FailedRefreshReturnsList ==
  [][ last'.op = "getAll" =>
        /\ last'.outcome \in {"pending", "ok", "swallowed"}
        /\ last'.outcome = "swallowed"
             => ListsUnchanged /\ last'.list = transactions ]_vars

\* a refresh failed at the vendor while the list held a record
C7_RefreshFailed ==
  /\ last.op = "getAll" /\ last.refresh /\ last.outcome = "swallowed"
  /\ last.phase = "api" /\ last.list # <<>>

\* C8: getAll(refresh=false) sends neither a token request nor an API
\* request, changes neither list, and returns the in-memory list.
C8_LocalGetAllCallsNothing ==
  [][ (last'.op = "getAll" /\ ~last'.refresh) =>
        /\ ~last'.fetch /\ ~last'.api
        /\ last'.outcome = "ok" /\ last'.list = transactions
        /\ ListsUnchanged /\ procs' = procs /\ remote' = remote ]_vars

\* getAll(false) returned a list with a record while the client could have
\* reached the vendor
C8_LocalListReturned ==
  /\ last.op = "getAll" /\ ~last.refresh /\ last.outcome = "ok"
  /\ last.list # <<>> /\ isInitialized(cfg["client"])

C10_IdsUnique ==
  \A i, j \in 1..Len(transactions) :
    i # j => transactions[i].id # transactions[j].id

(* --------------------------- properties: merge -------------------------- *)

\* the list after updateTransactionsFromApi(pkgs)
Merged(list, pkgs) == updateTransactionsFromApi(list, pkgs, now, diskOk).transactions

\* how many records of list have this id
CountId(list, id) == Cardinality({i \in 1..Len(list) : list[i].id = id})

\* the last package of the batch with this id
LastWithId(pkgs, id) ==
  pkgs[CHOOSE k \in 1..Len(pkgs) :
         /\ pkgs[k].id = id
         /\ \A m \in (k + 1)..Len(pkgs) : pkgs[m].id # id]

\* C11: for every batch of packages, merged once (an id possibly twice in
\* the batch) and then merged again, each id of the batch has exactly one
\* record after either merge, the second merge adds no record, and the
\* record carries the status and apiData of the last package merged for it.
C11_MergeIdempotentPerId ==
  \A pkgs \in Batches :
    LET once  == Merged(transactions, pkgs)
        twice == Merged(once, pkgs)
    IN /\ Len(twice) = Len(once)
       /\ \A k \in 1..Len(pkgs) :
            LET id == pkgs[k].id
                pk == LastWithId(pkgs, id)
            IN /\ CountId(once, id) = 1
               /\ CountId(twice, id) = 1
               /\ once[findIndex(once, id)].status = StatusOf(pk)
               /\ twice[findIndex(twice, id)].status = StatusOf(pk)
               /\ twice[findIndex(twice, id)].apiData = pk
               /\ findIndex(twice, id) = findIndex(once, id)

\* a discovered record has been merged again in a later call
C11_MergedAgainLater ==
  /\ last.op = "merge"
  /\ \E i \in 1..Len(transactions) :
       /\ transactions[i].history = <<"DISCOVERED">>
       /\ transactions[i].updated # transactions[i].created

\* C12: for every batch, a package whose id the list does not hold gets
\* exactly one record, built from its first occurrence: as many signers as
\* the package has roles (none when it has no roles array), no documents,
\* and a history of the one DISCOVERED entry.
C12_DiscoveredRecordShape ==
  \A pkgs \in Batches :
    LET merged == Merged(transactions, pkgs) IN
    \A k \in 1..Len(pkgs) :
      ( /\ findIndex(transactions, pkgs[k].id) = 0
        /\ \A m \in 1..(k - 1) : pkgs[m].id # pkgs[k].id )
      => LET rec == merged[findIndex(merged, pkgs[k].id)] IN
         /\ CountId(merged, pkgs[k].id) = 1
         /\ Len(merged) > Len(transactions)
         /\ Len(rec.signers) = (IF pkgs[k].hasRoles THEN Len(pkgs[k].roles) ELSE 0)
         /\ rec.documents = <<>>
         /\ rec.history = <<"DISCOVERED">>

\* a package with two roles has been discovered
C12_DiscoveredWithTwoSigners ==
  /\ last.op = "merge"
  /\ \E i \in 1..Len(transactions) :
       /\ transactions[i].history = <<"DISCOVERED">>
       /\ Len(transactions[i].signers) = 2

\* C13: for every batch, every record the list held keeps its position, id,
\* name, created, signers, documents and history, and a record whose id is
\* not in the batch is unchanged altogether.
C13_MergeKeepsLocalFields ==
  \A pkgs \in Batches :
    LET merged == Merged(transactions, pkgs) IN
    /\ Len(merged) >= Len(transactions)
    /\ \A i \in 1..Len(transactions) :
         /\ merged[i].id = transactions[i].id
         /\ merged[i].name = transactions[i].name
         /\ merged[i].created = transactions[i].created
         /\ merged[i].signers = transactions[i].signers
         /\ merged[i].documents = transactions[i].documents
         /\ merged[i].history = transactions[i].history
         /\ (\A k \in 1..Len(pkgs) : pkgs[k].id # transactions[i].id)
              => merged[i] = transactions[i]

\* the record of an earlier run has been refreshed by a merge and kept its
\* signer, document and history
C13_RefreshedStoredRecord ==
  /\ last.op = "merge"
  /\ \E i \in 1..Len(transactions) :
       /\ transactions[i].status # "CREATED"
       /\ transactions[i].history = StoredTx.history
       /\ transactions[i].signers = StoredTx.signers
       /\ transactions[i].documents = StoredTx.documents

(* ------------------------ properties: operations ------------------------ *)

\* C14: every cancel whose vendor call succeeds completes, whatever the
\* status of the record was: it leaves the record CANCELED and its history
\* the history before with one CANCEL entry appended, so a second cancel
\* of the same id succeeds and appends a second entry after the first.
C14_CancelAgainAppendsEntry ==
  [][ (last'.op = "cancel" /\ last'.phase = "api" /\ last'.outcome = "ok") =>
        LET i == findIndex(transactions, last'.id) IN
        /\ i > 0
        /\ Len(transactions') = Len(transactions)
        /\ transactions'[i].status = "CANCELED"
        /\ transactions'[i].history = Append(transactions[i].history, "CANCEL")
        /\ txFile' = transactions' ]_vars

\* a second cancel of the same record has completed
C14_CanceledTwice ==
  /\ last.op = "cancel" /\ last.outcome = "ok"
  /\ \E i \in 1..Len(transactions) :
       /\ transactions[i].id = last.id
       /\ transactions[i].status = "CANCELED"
       /\ \E k \in 1..Len(transactions[i].history) :
            /\ k + 1 = Len(transactions[i].history)
            /\ transactions[i].history[k] = "CANCEL"
            /\ transactions[i].history[k + 1] = "CANCEL"

(* ---------------------- properties: list request ---------------------- *)

\* a listPackages call, made on its own, has just run up to its first await
ListPackagesStarted == last.op = "listPackages" /\ last.phase = "start"

\* C15: listPackages fails with "Platform email not configured", before any
\* vendor call, exactly when the caller gave no ownerEmail and the configured
\* platformEmail is empty; with an ownerEmail given the call never fails so.
C15_PlatformEmailNeededOnlyWithoutOwner ==
  ListPackagesStarted =>
    /\ last.error = "Platform email not configured"
         <=> /\ last.options.ownerEmail = <<>>
             /\ PlatformEmailMissing(getConfig(cfg["client"], FALSE))
    /\ last.error = "Platform email not configured"
         => ~last.fetch /\ ~last.api /\ last.outcome = "error"

\* standard percent-decoding, as the vendor applies it to the query value
RECURSIVE decodeURIComponent(_)
decodeURIComponent(str) ==
  IF str = <<>> THEN <<>>
  ELSE IF Head(str) = "%" /\ Len(str) >= 3
       THEN << CHOOSE ch \in {"@", "+", " ", "%"} : HexOf(ch) = <<str[2], str[3]>> >>
            \o decodeURIComponent(SubSeq(str, 4, Len(str)))
       ELSE <<Head(str)>> \o decodeURIComponent(Tail(str))

\* listPackages, called on its own or by getAllTransactions(true), has just
\* built its URL
UrlBuilt ==
  /\ last.phase = "start"
  /\ last.op = "listPackages" \/ (last.op = "getAll" /\ last.refresh)
  /\ ~PlatformEmailMissing(getConfig(cfg["client"], FALSE))

\* the e-mail the caller means: the one given, else the platform e-mail
OwnerMeant ==
  IF last.options.ownerEmail # <<>> THEN last.options.ownerEmail
  ELSE Chars(cfg["client"].platformEmail)

\* C16: the ownerEmail value of the URL holds no raw '@', '+' or space (they
\* appear as %40, %2B, %20), and percent-decoding it gives the owner e-mail
\* the caller gave, or the platform e-mail when the caller gave none; the
\* platform e-mail a+b@c.com is sent as a%2Bb%40c.com.
C16_OwnerEmailEncodedAndDecodable ==
  UrlBuilt =>
    /\ \A i \in 1..Len(last.url.ownerEmail) :
         last.url.ownerEmail[i] \notin {"@", "+", " "}
    /\ decodeURIComponent(last.url.ownerEmail) = OwnerMeant
    /\ Len(last.url.ownerEmail) =
         Len(OwnerMeant)
         + 2 * Cardinality({i \in 1..Len(OwnerMeant) :
                              OwnerMeant[i] \in {"@", "+", " ", "%"}})
    /\ (last.options.ownerEmail = <<>> /\ cfg["client"].platformEmail = "a+b@c.com")
         => last.url.ownerEmail
              = <<"a", "%", "2", "B", "b", "%", "4", "0", "c", ".", "c", "o", "m">>

\* an e-mail holding '+', a space and '@' went out to the vendor escaped
C16_ReservedCharactersSent ==
  /\ UrlBuilt /\ last.op = "listPackages" /\ last.api
  /\ last.options.ownerEmail = TestEmail
  /\ last.url.ownerEmail
       = <<"a", "%", "2", "B", "a", "%", "2", "0", "a", "%", "4", "0", "a", ".", "a">>

\* C17: the from and to of the URL that getAllTransactions(true) and
\* listPackages send are 1 and 100 when the caller gave none, and the
\* caller's own values for every pair of positive integers given.
C17_PagesDefaultOrAsGiven ==
  UrlBuilt =>
    /\ last.url.from = (IF last.options.from = 0 THEN 1 ELSE last.options.from)
    /\ last.url.to = (IF last.options.to = 0 THEN 100 ELSE last.options.to)

\* getAllTransactions(true, {from: 2, to: 1}) sent from=2 and to=1
C17_CallerPagesSent ==
  /\ UrlBuilt /\ last.op = "getAll" /\ last.api
  /\ last.options.from = 2 /\ last.options.to = 1
  /\ last.url.from = 2 /\ last.url.to = 1

(* ------------------- properties: configuration record ------------------ *)

\* client secrets a stored configuration can hold
SecretValues == {"", "secA", "secB"}

\* C18: getConfig(false) returns a record without a clientSecret field whose
\* other fields equal the stored ones, so it is the same for stored records
\* that differ in clientSecret only; getConfig(true) returns the clientSecret.
C18_SecretLeftOutUnlessAsked ==
  last.op = "getConfig" =>
    LET c == cfg[last.cm] IN
    IF last.includeSecret
    THEN last.got = c
    ELSE /\ DOMAIN last.got = ConfigKeys \ {"clientSecret"}
         /\ \A k \in DOMAIN last.got : last.got[k] = c[k]
         /\ \A secret \in SecretValues :
              getConfig([c EXCEPT !.clientSecret = secret], FALSE) = last.got

\* a configuration with a secret was read without it
C18_ReadWithoutSecret ==
  /\ last.op = "getConfig" /\ ~last.includeSecret
  /\ cfg[last.cm].clientSecret = "secA"
  /\ last.got.clientId = cfg[last.cm].clientId

\* a partial update that provides a clientId, clientSecret or platformEmail
\* that is no string
HasNonString(n) ==
  \E k \in {"clientId", "clientSecret", "platformEmail"} :
    n[k] # Absent /\ ~IsString(n[k])

\* C19: an update that provides a clientId, clientSecret or platformEmail
\* that is not a string fails as a whole: it returns false and changes
\* neither the record in memory nor the file.
C19_NonStringFieldRejected ==
  \A n \in Partials :
    HasNonString(n) =>
      LET r == updateConfig(cfg["route"], n, diskOk) IN
      ~r.ret /\ r.config = cfg["route"] /\ ~r.wrote

\* a reset has just returned true and left the record c: the defaults with
\* the given region
ResetLeft(c, region) ==
  /\ c = [DEFAULT_CONFIG EXCEPT !.region = region]
  /\ c.clientId = "" /\ c.clientSecret = "" /\ c.platformEmail = ""
  /\ c.accessToken = Null /\ c.tokenExpiry = NullExpiry /\ c.initialized = FALSE
  /\ configFile' = c
  /\ ~isInitialized(c) /\ ~isTokenValid(c, now')

\* C20 as amended: a reset restores every field to its default, except that
\* with keepRegion a region that is not empty keeps its value (an empty one
\* becomes 'us', as does any region without keepRegion); after a reset
\* isInitialized() and isTokenValid() are both false.
C20_ResetRestoresDefaultsKeepsSetRegion ==
  [][ (last'.op = "reset" /\ last'.ret) =>
        ResetLeft(cfg'[last'.cm],
                  IF last'.keepRegion /\ cfg[last'.cm].region # ""
                  THEN cfg[last'.cm].region ELSE "us") ]_vars

\* C20 as stated: with keepRegion the region keeps its current value,
\* whatever that value is.
C20_ResetKeepsAnyRegion ==
  [][ (last'.op = "reset" /\ last'.ret) =>
        ResetLeft(cfg'[last'.cm],
                  IF last'.keepRegion THEN cfg[last'.cm].region ELSE "us") ]_vars

\* a reset that kept the region 'eu' and emptied the rest
C20_ResetKeptRegion ==
  /\ last.op = "reset" /\ last.ret /\ last.keepRegion
  /\ cfg[last.cm].region = "eu" /\ cfg[last.cm].clientId = ""
  /\ configFile = cfg[last.cm]

(* ------------------------ properties: API client ------------------------ *)

\* C21: authenticate() on a configuration that is not initialized fails with
\* the configuration error, sends nothing (no token request, no API request)
\* and changes neither the record in memory nor the file.
C21_UnconfiguredAuthenticateFails ==
  [][ ( /\ last'.op = "authenticate" /\ last'.phase = "start"
        /\ cfg["client"].initialized # TRUE )
      => /\ last'.outcome = "error"
         /\ last'.error = "API client not configured"
         /\ ~last'.fetch /\ ~last'.api
         /\ procs'[last'.p].pc = "idle"
         /\ cfg' = cfg /\ configFile' = configFile ]_vars

\* authenticate() was refused on the default configuration
C21_AuthenticateRefused ==
  /\ last.op = "authenticate" /\ last.outcome = "error"
  /\ last.error = "API client not configured"
  /\ cfg["client"] = DEFAULT_CONFIG

\* C22: when the token endpoint answers non-2xx, or 2xx without a token,
\* authenticate() fails and the stored accessToken and tokenExpiry stay as
\* they were, in memory and in the file; a 2xx answer that carries a token
\* stores that token, and nothing else changes the stored token.
C22_OnlyAcceptedAnswerStoresToken ==
  [][ /\ last'.phase = "auth" =>
           LET a == last'.answer IN
           IF ~a.ok \/ a.token = Absent
           THEN /\ last'.outcome = "error"
                /\ procs'[last'.p].pc = "idle"
                /\ cfg' = cfg /\ configFile' = configFile
           ELSE /\ last'.outcome \in {"ok", "pending"}
                /\ cfg'["client"].accessToken = a.token
                /\ configFile'.accessToken = a.token
                /\ cfg'["client"].tokenExpiry
                     = toISOString(ExpiryTime(now, ExpiresOrDefault(a.expires_in)))
      /\ cfg'["client"].accessToken # cfg["client"].accessToken
           => last'.phase = "auth" /\ last'.answer.ok ]_vars

\* a non-2xx answer failed authenticate() and the expired token stayed
C22_RejectedAnswerKeptToken ==
  /\ last.op = "authenticate" /\ last.phase = "auth" /\ last.outcome = "error"
  /\ ~last.answer.ok /\ last.answer.token # Absent
  /\ cfg["client"].accessToken = "tok1"

\* a request() has just got the answer of fetch
Answered == last.op = "request" /\ last.phase = "api"

\* the content type declares JSON
DeclaredJson(r) == r.contentType \notin {Null, "text/plain"}

\* what the claim says of every answer but a 2xx one declared as JSON
ClassifiedOtherwise(r, x) ==
  IF r.rejected THEN x.outcome = "error" /\ x.error = "API request failed"
  ELSE IF r.status = 204
  THEN x.outcome = "ok" /\ x.value = [success |-> TRUE] /\ x.read = "none"
  ELSE IF r.status \notin 200..299
  THEN /\ x.outcome = "error" /\ x.error = "API request failed"
       /\ x.status = r.status /\ x.text = r.body
  ELSE /\ x.outcome = "ok"
       /\ x.value = [success |-> TRUE, text |-> r.body, status |-> r.status]

JsonAnswer(r) ==
  ~r.rejected /\ r.status # 204 /\ r.status \in 200..299 /\ DeclaredJson(r)

\* C23 as amended: 204 gives {success: true} with the body not read; any
\* other non-2xx status fails with the status and the body text; a 2xx answer
\* declared as JSON gives the parsed body if the body parses and fails with
\* an API request error if it does not; any other 2xx answer gives
\* {success: true, text, status}; a transport failure fails with an API
\* request error.
C23_AnswerClassifiedParsableJson ==
  Answered =>
    LET r == last.response
        x == last.result IN
    IF JsonAnswer(r)
    THEN IF JSONParse(r.body).ok
         THEN x.outcome = "ok" /\ x.value = JSONParse(r.body).value
         ELSE x.outcome = "error" /\ x.error = "API request failed"
    ELSE ClassifiedOtherwise(r, x)

\* C23 as stated: every 2xx answer declared as JSON gives the parsed body.
C23_AnswerClassified ==
  Answered =>
    LET r == last.response
        x == last.result IN
    IF JsonAnswer(r)
    THEN x.outcome = "ok" /\ x.value = JSONParse(r.body).value
    ELSE ClassifiedOtherwise(r, x)

\* a 201 answer declared as JSON with a charset gave its parsed body
C23_JsonBodyReturned ==
  /\ Answered /\ last.response.status = 201
  /\ last.response.contentType = "application/json; charset=utf-8"
  /\ last.result.outcome = "ok" /\ last.result.value = [id |-> "p1"]

(* ------------------- properties: one running process ------------------- *)

\* C24: once an update through PUT /api/config has succeeded and made the
\* configuration initialized, the authenticate() of the API client and the
\* initialized check of POST /api/auth/token that follow do not fail for a
\* missing configuration, and every component sees the new values.
C24_UpdateSeenByEveryComponent ==
  [][ ( /\ last.op = "updateConfig" /\ last.ret
        /\ isInitialized(cfg["route"]) )
      => /\ \A cm \in CMs : cfg[cm].clientId = cfg["route"].clientId
         /\ (last'.op \in {"token", "authenticate"} /\ last'.phase = "start")
              => last'.error \notin {"Missing credentials",
                                     "API client not configured"} ]_vars

\* C25: after POST /api/auth/revoke has reported success the revoked token
\* is not used again: the authenticate() that follows fetches a new token
\* instead of returning a stored one, and GET /api/auth/status that follows
\* reports valid=false.
C25_RevokedTokenNotUsedAgain ==
  [][ (last.op = "revoke" /\ last.ret)
      => /\ (last'.op \in {"token", "authenticate"} /\ last'.phase = "start"
               /\ last'.outcome # "error")
              => last'.fetch
         /\ last'.op = "status" => ~last'.got.valid ]_vars

\* C26: after POST /api/auth/token has reported success, GET /api/auth/status
\* that follows (the token not expired, not revoked, the credentials not
\* changed) reports valid=true and the expiry of the token just generated.
C26_StatusValidAfterToken ==
  [][ (last.op = "token" /\ last.outcome = "ok" /\ last'.op = "status")
      => /\ last'.got.valid
         /\ last'.got.expiresAt = cfg["authClient"].tokenExpiry ]_vars

\* C27: after POST /api/reset has reported success, GET /api/transactions
\* without refresh returns an empty list, and the configuration every route
\* sees is uninitialized and holds no token.
C27_CleanStateAfterReset ==
  [][ (last'.op = "appReset" /\ last'.ret)
      => /\ transactions' = <<>>
         /\ \A cm \in CMs : ~isInitialized(cfg'[cm]) /\ cfg'[cm].accessToken = Null
    ]_vars

(* ------------------- properties: transaction records ------------------- *)

\* C28: every domain mutator call that returns successfully has appended
\* exactly one entry to the history of the transaction it names and has
\* persisted the updated list.
C28_SuccessfulMutatorAppendsOneEntry ==
  [][ ( /\ last'.op \in Mutators
        /\ last'.phase = "api" /\ last'.outcome = "ok" )
      => LET i == findIndex(transactions, last'.id)
             j == findIndex(transactions', last'.id) IN
         /\ i > 0 /\ j > 0
         /\ Len(transactions'[j].history) = Len(transactions[i].history) + 1
         /\ txFile' = transactions' ]_vars

\* the ids of the records of a list
Ids(list) == {list[i].id : i \in 1..Len(list)}

\* C29: no operation other than reset() removes a transaction: over every
\* step of create, refresh merge, getById and cancel, alone or interleaved,
\* the ids in the list and in the file only grow, and no record goes.
C29_OnlyResetRemoves ==
  [][ last'.op # "reset"
      => /\ Ids(transactions) \subseteq Ids(transactions')
         /\ Len(transactions') >= Len(transactions)
         /\ Ids(txFile) \subseteq Ids(txFile')
         /\ Len(txFile') >= Len(txFile) ]_vars

\* a cancel has returned and the list still holds the canceled record next
\* to another one
C29_CanceledRecordKept ==
  /\ last.op = "cancel" /\ last.phase = "api" /\ last.outcome = "ok"
  /\ Len(transactions) = 2
  /\ \E i \in 1..Len(transactions) :
       transactions[i].id = last.id /\ transactions[i].status = "CANCELED"
  /\ txFile = transactions

\* s is a prefix of t
IsPrefix(s, t) == Len(s) <= Len(t) /\ SubSeq(t, 1, Len(s)) = s

\* every record of list has its history continued in the record at the same
\* place of later
HistoriesContinued(list, later) ==
  \A i \in 1..Len(list) :
    (i <= Len(later) /\ later[i].id = list[i].id)
      => IsPrefix(list[i].history, later[i].history)

\* C30: the history of every transaction is append-only: over every step of
\* refresh merges and mutators, alone or interleaved, the history a record
\* had before the step is a prefix of the one it has after it.
C30_HistoryAppendOnly ==
  [][ last'.op # "reset"
      => /\ HistoriesContinued(transactions, transactions')
         /\ HistoriesContinued(txFile, txFile') ]_vars

(* ---------------- properties: the configuration document --------------- *)

\* a client has just stored the token of an accepted answer
TokenStored ==
  /\ last'.op \in {"token", "authenticate"}
  /\ last'.phase = "auth" /\ last'.outcome = "ok"

\* C31: updateToken changes only accessToken and tokenExpiry of the
\* persisted configuration: every other field of the file keeps the value it
\* had immediately before the call, also when another instance wrote it.
C31_TokenUpdateKeepsOtherFields ==
  [][ TokenStored
      => \A k \in ConfigKeys \ {"accessToken", "tokenExpiry"} :
           configFile'[k] = configFile[k] ]_vars

(* ------------------ the configuration store on a bad disk --------------- *)

\* what fs finds at CONFIG_FILE_PATH besides a configuration document
MissingFile == [kind |-> "missing"]
CorruptFile == [kind |-> "corrupt"]

FileStates == {MissingFile, CorruptFile, DEFAULT_CONFIG, CONFIGURED}

\* loadConfig: the parsed document when the file exists and parses; the
\* defaults otherwise, after an attempt to create the file when it is missing
loadConfig(file, ok) ==
  IF file = MissingFile
  THEN [config |-> DEFAULT_CONFIG, file |-> IF ok THEN DEFAULT_CONFIG ELSE file,
        raised |-> FALSE]
  ELSE IF file = CorruptFile
  THEN [config |-> DEFAULT_CONFIG, file |-> file, raised |-> FALSE]
  ELSE [config |-> file, file |-> file, raised |-> FALSE]

\* new ConfigManager(): every instance of a starting process loads the file
Construct ==
  LET r == loadConfig(configFile, diskOk) IN
  /\ cfg' = [cm \in CMs |-> r.config]
  /\ configFile' = r.file
  /\ last' = [NoCall EXCEPT !.op = "load", !.cm = "route", !.got = r.config,
                            !.outcome = IF r.raised THEN "raised" ELSE "ok"]
  /\ UNCHANGED <<now, diskOk, txVars>>

\* the file system starts or stops accepting writes
DiskChange ==
  /\ diskOk' = ~diskOk
  /\ last' = NoCall
  /\ UNCHANGED <<now, configFile, cfg, txVars>>

\* the file is removed or damaged outside the process
FileLost ==
  /\ configFile \notin {MissingFile, CorruptFile}
  /\ configFile' \in {MissingFile, CorruptFile}
  /\ last' = NoCall
  /\ UNCHANGED <<now, diskOk, cfg, txVars>>

InitDisk ==
  /\ now = StartNow
  /\ diskOk \in BOOLEAN
  /\ \E f \in FileStates :
       /\ configFile = loadConfig(f, diskOk).file
       /\ cfg = [cm \in CMs |-> loadConfig(f, diskOk).config]
  /\ transactions = <<>>
  /\ txFile = <<>>
  /\ remote = {"p1"}
  /\ procs = [p \in Procs |-> IdleProc]
  /\ ops = 0
  /\ last = NoCall

NextDisk ==
  \/ UpdateConfigFrom("route", ProcessPartials)
  \/ UpdateToken("route")
  \/ Reset("route")
  \/ Construct
  \/ DiskChange
  \/ FileLost
  \/ Tick

SpecDisk == InitDisk /\ [][NextDisk]_vars

StoreWrites == {"updateConfig", "updateToken", "reset"}

\* C32: when the write of the configuration file fails, update, updateToken
\* and reset return false and leave the in-memory record and the file as they
\* were; when they return true the in-memory record is the document just
\* written; load never raises and yields the defaults when the file is
\* missing or does not parse.
C32_FailedWriteLeavesRecord ==
  [][ /\ (last'.op \in StoreWrites /\ ~diskOk)
         => /\ last'.ret = FALSE
            /\ last'.outcome # "raised"
            /\ cfg' = cfg
            /\ configFile' = configFile
      /\ (last'.op \in StoreWrites /\ last'.ret = TRUE)
         => cfg'[last'.cm] = configFile'
      /\ (last'.op \in StoreWrites /\ last'.ret = FALSE)
         => cfg' = cfg /\ configFile' = configFile
      /\ last'.op = "load"
         => /\ last'.outcome = "ok"
            /\ (configFile \in {MissingFile, CorruptFile}
                  => last'.got = DEFAULT_CONFIG)
            /\ (configFile \notin {MissingFile, CorruptFile}
                  => last'.got = configFile) ]_vars

\* a write failed on a configured store, and a load found a damaged file
C32_WriteFailed ==
  /\ last.op \in StoreWrites /\ last.ret = FALSE /\ ~diskOk
  /\ cfg["route"].clientId = "idA"
  /\ last.op = "updateToken"

C32_LoadFailed ==
  /\ last.op = "load" /\ configFile = CorruptFile
  /\ last.got = DEFAULT_CONFIG

(* ------------------------ properties: no retries ------------------------ *)

\* C33: no operation retries.  A token request leaves only as the first step
\* of an invocation, an API request only as its first step or right after the
\* token answer, nothing is sent after the API request, and the step that
\* reports or swallows a failure ends the invocation: one invocation sends at
\* most one token request and at most one API request and reports a failure
\* once.
C33_NoRetry ==
  [][ \A p \in Procs :
        /\ (last'.p = p /\ last'.fetch)
              => procs[p].pc = "idle" /\ procs'[p].pc = "auth"
        /\ (last'.p = p /\ last'.api)
              => procs[p].pc \in {"idle", "auth"} /\ procs'[p].pc = "api"
        /\ (procs[p].pc = "auth" /\ procs'[p].pc # "auth")
              => procs'[p].pc \in {"idle", "api"}
        /\ (procs[p].pc = "api" /\ procs'[p].pc # "api")
              => procs'[p].pc = "idle"
        /\ (last'.p = p /\ last'.outcome \in {"error", "swallowed"})
              => procs'[p].pc = "idle" ]_vars

\* a refresh whose list request failed after its token request succeeded
C33_FailedAfterFetch ==
  /\ last.op = "getAll" /\ last.phase = "api" /\ last.outcome = "swallowed"
  /\ Truthy(cfg["client"].accessToken)
  /\ procs[last.p].pc = "idle"

(* ------------------ properties: mutators and the status ----------------- *)

Statuses == {"DRAFT", "SENT", "CANCELED", "COMPLETED", "UNKNOWN"}

\* a mutator's first step on a record it found, with the client configured
StartedOnRecord ==
  /\ last'.op \in Mutators /\ last'.phase = "start"
  /\ last'.outcome # "notfound"
  /\ last'.error # "API client not configured"

\* C34: no mutator is accepted or rejected because of the status of the
\* record: whether its first step rejects the call, and whether it raises on
\* the vendor's answer, is the same for every status the record could have;
\* a sendTransaction that the vendor accepted leaves the record SENT whatever
\* its status was.
C34_StatusNeverChecked ==
  [][ /\ StartedOnRecord
         => LET tx == transactions[Lookup(transactions, last'.id)] IN
            \A s \in Statuses :
              /\ (last'.outcome = "error")
                   <=> ~PreCheck(last'.op, [tx EXCEPT !.status = s])
              /\ \A ans \in {"ok", "empty"} :
                   Mutate(last'.op, [tx EXCEPT !.status = s], ans, now).throws
                     = Mutate(last'.op, tx, ans, now).throws
      /\ (last'.op = "sendTransaction" /\ last'.phase = "api"
           /\ last'.outcome = "ok")
         => \A i \in 1..Len(transactions') :
              transactions'[i].id = last'.id => transactions'[i].status = "SENT"
    ]_vars

\* a sendTransaction has just succeeded on a transaction that was cancelled
C34_SentAfterCancel ==
  /\ last.op = "sendTransaction" /\ last.phase = "api" /\ last.outcome = "ok"
  /\ \E i \in 1..Len(transactions) :
       /\ transactions[i].id = last.id
       /\ transactions[i].status = "SENT"
       /\ Len(transactions[i].history) >= 2
       /\ transactions[i].history[Len(transactions[i].history) - 1] = "CANCEL"
       /\ transactions[i].history[Len(transactions[i].history)] = "SEND"

(* ------------------- the refresh and the answer's shape ----------------- *)

\* a process whose vendor account holds two packages
InitRefresh ==
  /\ now = StartNow
  /\ diskOk = TRUE
  /\ configFile = CONFIGURED
  /\ cfg = [cm \in CMs |-> configFile]
  /\ txFile \in {<<>>, <<StoredTx>>}
  /\ transactions = txFile
  /\ remote = {"p1", "p2"}
  /\ procs = [p \in Procs |-> IdleProc]
  /\ ops = 0
  /\ last = NoCall

NextRefresh ==
  \/ \E p \in {1} :
       \/ GetAll(p)
       \/ AuthAnswer(p)
       \/ ListAnswerSeen(p)
       \/ ApiFailure(p)
  \/ Tick

\* getAllTransactions, one call at a time, the answers in every shape
SpecRefresh == InitRefresh /\ [][NextRefresh]_vars

\* a list answer has just been handled
ListAnswered ==
  /\ last'.op = "getAll" /\ last'.phase = "api" /\ last'.outcome = "ok"

\* the lists and the returned list are the merge of pkgs
MergedFrom(pkgs) ==
  /\ transactions' = Merged(transactions, pkgs)
  /\ txFile' = transactions'
  /\ last'.list = transactions'

\* C35: a refresh merges the array of the answer the same way whether it
\* arrives under packages or under results, the one under packages when both
\* are arrays; an answer with neither array leaves the local and the
\* persisted list unchanged and the current list is returned.
C35_PackagesOrResults ==
  [][ ListAnswered =>
        LET resp == last'.response IN
        /\ resp.packagesIsArray => MergedFrom(resp.packages)
        /\ (~resp.packagesIsArray /\ resp.resultsIsArray)
              => MergedFrom(resp.results)
        /\ (~resp.packagesIsArray /\ ~resp.resultsIsArray)
              => /\ transactions' = transactions
                 /\ txFile' = txFile
                 /\ last'.list = transactions ]_vars

\* an answer with different arrays under both keys has been merged
C35_BothArrays ==
  /\ last.op = "getAll" /\ last.phase = "api" /\ last.outcome = "ok"
  /\ last.response # NoResponse
  /\ last.response.packagesIsArray /\ last.response.resultsIsArray
  /\ Len(last.response.packages) = 1 /\ Len(last.response.results) = 2
  /\ Len(transactions) = 1

(* ----------------------- the lifetime of a token ------------------------ *)

NextToken ==
  \/ \E p \in Procs :
       \/ Authenticate(p)
       \/ AuthAnswerLifetime(p)
       \/ AuthAnswer(p)
  \/ Tick

\* authenticate() against a token endpoint that grants any lifetime
SpecToken == Init /\ [][NextToken]_vars

\* C36: right after authenticate() has fetched and stored a new token,
\* isTokenValid() is true, so that the next authenticate() is a cache hit,
\* whatever expires_in the vendor returned.
C36_StoredTokenIsValid ==
  [][ (last'.op = "authenticate" /\ last'.phase = "auth" /\ last'.outcome = "ok")
        => /\ cfg'["client"].accessToken = last'.token
           /\ isTokenValid(cfg'["client"], now')
           /\ CacheHit(cfg'["client"], now') ]_vars

(* --------------------------- concurrent refreshes ----------------------- *)

\* the vendor answers the list request of p with some of its packages under
\* packages, or with a body without an array
ListAnswerPackages(p) ==
  /\ procs[p].pc = "api" /\ procs[p].op = "getAll"
  /\ \E field \in {"packages", "none"}, listed \in SUBSET remote :
       ListAnswerOf(p, ApiResponse(field,
                                   Listing(1, listed, [id \in listed |-> SentVariant]),
                                   <<>>), TRUE)
  /\ UNCHANGED <<now, diskOk, cfg, configFile, remote, ops>>

NextRace ==
  \E p \in Procs :
    \/ GetAll(p)
    \/ AuthAnswer(p)
    \/ ListAnswerPackages(p)
    \/ ApiFailure(p)

\* getAllTransactions against itself
SpecRace == InitRefresh /\ [][NextRace]_vars

NoDuplicateId(list) == \A id \in Ids(list) : CountId(list, id) = 1

\* C37: two refreshes running at once.  Whichever answer is handled first,
\* handling an answer leaves a list that holds every id of that answer and
\* every id the list held, each once, and no other step of the two calls
\* changes the list: when both have returned the list holds every id of
\* either answer and every id it had before, none twice.
C37_ConcurrentRefreshesKeepEveryId ==
  [][ /\ NoDuplicateId(transactions')
      /\ ListAnswered
           => Ids(transactions')
                = Ids(transactions) \cup Ids(PackagesData(last'.response).data)
      /\ ~ListAnswered => transactions' = transactions ]_vars

\* the second caller's answer is merged while the first caller still waits
\* for its own, and the list holds both packages
C37_AnsweredOutOfOrder ==
  /\ last.op = "getAll" /\ last.phase = "api" /\ last.outcome = "ok"
  /\ last.p = 2
  /\ procs[1].pc = "api" /\ procs[1].op = "getAll" /\ procs[1].refresh
  /\ Ids(transactions) = {"p1", "p2"}
  /\ Len(last.response.packages) = 1

(* ---------------------- the mirror on a bad disk ------------------------ *)

NextFailing ==
  \/ \E p \in {1} :
       \/ AuthAnswer(p)
       \/ ApiFailure(p)
       \/ MutatorStart(p, Mutators)
       \/ MutatorAnswer(p)
  \/ DiskChange
  \/ Tick

\* the domain mutators, one call at a time, on a disk that stops and resumes
\* accepting writes
SpecFailing == Init /\ [][NextFailing]_vars

\* C38: after every completed operation of the mirror the in-memory list
\* equals the last persisted list, also when the write fails: a mutator whose
\* write fails leaves no change in memory and does not report success.
C38_MemoryEqualsPersisted ==
  [][ (last'.op \in Mutators /\ last'.phase = "api")
        => /\ transactions' = txFile'
           /\ (last'.outcome = "ok" /\ ~diskOk) => transactions' = transactions
    ]_vars

(* ------------------- properties: whose token it is ---------------------- *)

\* the client's ConfigManager is written by updateToken only, so the
\* credentials in its record are the ones every token it holds was fetched
\* with
FetchedWith == [ clientId     |-> cfg'["client"].clientId,
                 clientSecret |-> cfg'["client"].clientSecret ]

StoredPair == [ clientId     |-> configFile'.clientId,
                clientSecret |-> configFile'.clientSecret ]

\* C39: authenticate() never returns a token obtained with a clientId and
\* clientSecret other than the pair the persisted configuration holds when
\* it returns.
C39_TokenOfStoredCredentials ==
  [][ (last'.op = "authenticate" /\ last'.outcome = "ok")
        => FetchedWith = StoredPair ]_vars

====
